---- MODULE Spec2Model ----
(***************************************************************************)
(* Channel log and reliable delivery of ClawSwarm (imaflytok/moltswarm):   *)
(* the Redis Streams service (src/src/services/redis-streams.js) and the   *)
(* channel routes that call it (src/src/routes/channels.js).               *)
(*                                                                         *)
(* The Redis server is modelled by what its stream commands do: XADD,      *)
(* XGROUP CREATE/DESTROY, XREADGROUP ... ">", XACK, XPENDING, XRANGE and    *)
(* XINFO GROUPS.  Entry IDs ("<ms>-<seq>", assigned by XADD "*") are the    *)
(* positions 1, 2, ... of the entries in the stream: Redis hands them out  *)
(* strictly increasing.                                                    *)
(***************************************************************************)
EXTENDS Integers, Sequences, FiniteSets, Bags, TLC

(***************************************************************************)
(* Bounds of the model.                                                    *)
(***************************************************************************)
\* POST /:channelId/message requests handled per channel
MaxPosts == 2
\* readForAgent calls that are between two awaits at the same time
MaxReads == 1
\* commands sent on the Redis connection and not yet replied to
MaxQueue == 2
\* deliveries awaiting the reply of their fetch, at most
MaxInFlight == 2
\* notifications stored in inboxes, at most
MaxStored == 52
\* notifications added per agent where the push path is followed, at most
MaxAdded == 2

(***************************************************************************)
(* Inputs.                                                                 *)
(***************************************************************************)
Agents == {"alice", "bob"}
\* the agents that post
Authors == {"alice"}
\* the channels of the registry; UnknownChannel is an id no channel has
Channels == {"general"}
UnknownChannel == "nochannel"
ChannelIds == Channels \cup {UnknownChannel}
\* a request body without agentId
NoAgent == ""
\* the agent of the requests of SpecEdge, which may come without agentId
EdgeAgents == {"alice"}
EdgeBodyAgents == EdgeAgents \cup {NoAgent}
Contents == {"hi"}
\* startFrom of POST /subscribe: "$" (default), "0", and the spec's word
\* "all", which is no stream ID
StartFroms == {"$", "0", "all"}
\* ?count= as parseInt sees it: 0 stands for absent, "0" and not-a-number
QueryCounts == {-1, 0, 1}
\* the startFrom and ?count= of the requests of well-behaved clients
StreamIds == {"$", "0"}
PositiveCounts == {0, 1}
\* ?block= as parseInt sees it
QueryBlocks == {0, 5}
\* a messageId that is no stream ID
BadId == -1
AckIds == (1..MaxPosts) \cup {BadId}

DefaultReadCount == 50
DefaultPendingCount == 100
StreamPollCount == 10
\* failure_count >= 5 disables a webhook
DisableAfter == 5
\* if (inbox.length > 50) inbox.shift()
MaxInbox == 50
\* the agents that register webhooks, with ids as the platform hands them out
HookAgents == {"agent_1f", "agent_1"}

VARIABLES
    redisUp,            \* the Redis server is reachable
    stream,             \* stream:channel:<id>: the entries, in ID order
    groups,             \* the consumer groups of each stream
    channels,           \* channels.js: the in-memory channel registry
    savedChannels,      \* persistence: the channels table
    savedMessages,      \* persistence: the messages table
    nextMsg,            \* message ids handed out so far, per channel
    reads,              \* readForAgent calls awaiting their XREADGROUP
    answered,           \* history: the message ids answered with 201
    hist,               \* history of each agent group
    justRestarted,      \* history: no handler has changed anything since the
                        \* process was started again
    recordCreation,     \* whether hist records how each group was created
    listings,           \* history: the (channel, agent) pairs GET pending was
                        \* answered 200 for, where .kept says they are recorded,
                        \* and whether a request was answered 400 or 404, where
                        \* .watched says that is recorded
    conns,              \* the connections of GET /:channelId/stream
    sock,               \* the commands sent on the shared Redis connection
                        \* and not yet replied to, oldest first
    webhooks,           \* webhooks.js: the in-memory registry (a Map)
    agent_webhooks,     \* persistence: the agent_webhooks table
    attempts,           \* the deliveries awaiting the reply of their fetch:
                        \* a bag, deliveries that differ in nothing but
                        \* their delivery id and time being counted
    hookHist,           \* history of each agent's registration
    inboxes,            \* notifications.js: the stored notifications per agent
    sseClients,         \* notifications.js: the open connections per agent
    stored,             \* notifications stored so far
    inboxHist,          \* history of each inbox
    pubsub,             \* notifications.js: the pub/sub module is loaded and
                        \* initialised (FALSE: pubsub is null)
    published,          \* the notifications handed to pubsub.publish so far,
                        \* per agent
    heartbeats,         \* the connections whose heartbeat interval is set,
                        \* per agent
    sseHist             \* history of the connections: those whose transport
                        \* is open, and whether a closed one was written to

vars == <<redisUp, stream, groups, channels, savedChannels, savedMessages,
          nextMsg, reads, answered, hist, justRestarted, recordCreation, listings,
          conns, sock, webhooks, agent_webhooks, attempts, hookHist,
          inboxes, sseClients, stored, inboxHist, pubsub, published,
          heartbeats, sseHist>>

\* the pub/sub module, the heartbeat timers and the history of the connections
pushStateVars == <<pubsub, published, heartbeats, sseHist>>

\* the notification routes: the inboxes and the connections
inboxVars == <<inboxes, sseClients, stored, inboxHist, pushStateVars>>

\* the webhook service: its registry, its table, its deliveries
hookVars == <<webhooks, agent_webhooks, attempts, hookHist>>

\* what the webhook service never touches
nonHookVars == <<redisUp, stream, groups, channels, savedChannels, savedMessages,
                 nextMsg, reads, answered, hist, recordCreation, listings, conns,
                 sock, inboxVars>>

\* what the request handlers of the consumer-group routes never touch
pushVars == <<recordCreation, listings, conns, hookVars, inboxVars>>

\* what the handlers of the consumer-group routes leave alone but record in
\* listings
unlistedVars == <<recordCreation, conns, hookVars, inboxVars>>

\* return res.status(400 or 404).json({ error }): the listings after a request
\* was answered with status
Rejected(l, status) ==
    IF l.watched /\ status \in {400, 404} THEN [l EXCEPT !.rejected = TRUE] ELSE l

localVars == <<channels, savedChannels>>

(***************************************************************************)
(* Keys and group names.                                                   *)
(***************************************************************************)
\* (the stream of this key is stream[channelId])
CHANNEL_STREAM(channelId) == <<"stream", "channel", channelId>>
CONSUMER_GROUP == <<"clawswarm-consumers">>
\* (mutant) one group name for every agent
AGENT_GROUP_Shared(agentId) == <<"agent", "shared">>

AGENT_GROUP(agentId) == <<"agent", agentId>>
GroupNames == {AGENT_GROUP(a) : a \in Agents} \cup {CONSUMER_GROUP}

NoGroup == [exists |-> FALSE, last_id |-> 0, pel |-> {}]
NewGroup(id) == [exists |-> TRUE, last_id |-> id, pel |-> {}]

Min(a, b) == IF a < b THEN a ELSE b

\* the elements of a set of integers as a sequence in increasing order
RECURSIVE SortedSeq(_)
SortedSeq(S) ==
    IF S = {} THEN << >>
    ELSE LET m == CHOOSE x \in S : \A y \in S : x <= y
         IN <<m>> \o SortedSeq(S \ {m})

Range(s) == {s[i] : i \in 1..Len(s)}

(***************************************************************************)
(* Redis stream commands, as functions of the stream and the group.        *)
(* A reply is [err |-> "" or the error, ...].                              *)
(***************************************************************************)
\* XADD key * field value ...: the entry gets the next ID
XAdd(s, fields) == Append(s, fields)

\* a stream ID argument: "$" is the last ID of the stream, "0" is 0-0
ValidStartId(startFrom) == startFrom \in {"$", "0"}
\* (mutants) every group created at the end, or at the beginning, of the
\* stream
StartIdLast(s, startFrom) == Len(s)
StartIdFirst(s, startFrom) == 0
StartId(s, startFrom) == IF startFrom = "$" THEN Len(s) ELSE 0

\* (mutant) XGROUP CREATE that makes the group anew when it exists
XGroupCreateReplacing(s, g, startFrom) ==
    IF ~ValidStartId(startFrom)
    THEN [err |-> "ERR Invalid stream ID", group |-> g]
    ELSE [err |-> "", group |-> NewGroup(StartId(s, startFrom))]

\* XGROUP CREATE key group id MKSTREAM: the ID is parsed before the group is
\* looked up
XGroupCreate(s, g, startFrom) ==
    IF ~ValidStartId(startFrom)
    THEN [err |-> "ERR Invalid stream ID", group |-> g]
    ELSE IF g.exists
    THEN [err |-> "BUSYGROUP", group |-> g]
    ELSE [err |-> "", group |-> NewGroup(StartId(s, startFrom))]

\* XGROUP DESTROY key group
XGroupDestroy(g) == NoGroup

\* (mutant) XREADGROUP replying newest first
NewIdsNewestFirst(s, g, count) ==
    LET hi == IF count < 1 THEN Len(s) ELSE Min(Len(s), g.last_id + count)
    IN [i \in 1..(hi - g.last_id) |-> hi + 1 - i]

\* the IDs XREADGROUP ... COUNT count STREAMS key ">" delivers: the entries
\* after the group's last delivered ID, oldest first; COUNT below 1 is no
\* limit
NewIds(s, g, count) ==
    LET hi == IF count < 1 THEN Len(s) ELSE Min(Len(s), g.last_id + count)
    IN [i \in 1..(hi - g.last_id) |-> g.last_id + i]

\* (mutant) a delivery that replaces the pending entries list
DeliveredReplacing(g, ids) ==
    IF ids = << >> THEN g
    ELSE [g EXCEPT !.last_id = ids[Len(ids)], !.pel = Range(ids)]

\* the group after XREADGROUP delivered ids: they join the pending entries
\* list and the last delivered ID moves to the last of them
Delivered(g, ids) ==
    IF ids = << >> THEN g
    ELSE [g EXCEPT !.last_id = ids[Len(ids)], !.pel = @ \cup Range(ids)]

\* XACK key group id ...: the IDs leave the pending entries list; the reply
\* is how many were in it.  A group that does not exist gives 0.
XAckCount(g, ids) == Cardinality(g.pel \cap ids)
\* (mutant) XACK taking effect only when the oldest pending ID is among ids
XAckInOrder(g, ids) ==
    [g EXCEPT !.pel = IF \E i \in ids : \A p \in @ : i <= p THEN @ \ ids ELSE @]
XAck(g, ids) == [g EXCEPT !.pel = @ \ ids]

\* (mutant) the first pending ID taken for a header of the reply
XPendingSkippingFirst(g, count) ==
    LET all == SortedSeq(g.pel)
    IN SubSeq(all, 2, IF count < 0 THEN 0 ELSE Min(count, Len(all)))

\* XPENDING key group - + count: the pending IDs, oldest first
XPending(g, count) ==
    LET all == SortedSeq(g.pel)
    IN SubSeq(all, 1, IF count < 0 THEN 0 ELSE Min(count, Len(all)))

\* XRANGE key id id
XRange(s, id) == IF id \in 1..Len(s) THEN << <<id, s[id]>> >> ELSE << >>

\* the shared group of a stream after initStreams: XGROUP CREATE ... "$"
\* MKSTREAM, BUSYGROUP ignored
initStreams(s, g) == XGroupCreate(s, g, "$").group

(***************************************************************************)
(* Message <-> stream entry.                                               *)
(***************************************************************************)
\* JSON.stringify / JSON.parse of the metadata object; the route's default
\* metadata is {}, the empty object
EmptyObject == [x \in {} |-> x]
JsonStringify(object) == IF object = EmptyObject THEN "{}" ELSE "?"
JsonParse(text) == IF text = "{}" THEN EmptyObject ELSE [x \in {"?"} |-> x]

\* publishToChannel: Object.entries(msgData).flat().  (msgData also carries
\* the timestamp, a string that is stored and returned as it is.)
MsgFields(message) ==
    <<"id", message.id, "agentId", message.agentId,
      "content", message.content, "type", message.type,
      "metadata", JsonStringify(message.metadata)>>

\* the reply mapping of readForAgent / readChannel / getPendingForAgent:
\* for (i = 0; i < fields.length; i += 2) msg[fields[i]] = fields[i + 1]
FieldOf(fields, name) ==
    LET i == CHOOSE i \in 1..(Len(fields) \div 2) : fields[2 * i - 1] = name
    IN fields[2 * i]

ParseEntry(id, fields) ==
    [streamId |-> id,
     id       |-> FieldOf(fields, "id"),
     agentId  |-> FieldOf(fields, "agentId"),
     content  |-> FieldOf(fields, "content"),
     type     |-> FieldOf(fields, "type"),
     metadata |-> JsonParse(FieldOf(fields, "metadata"))]

ParseEntries(s, ids) == [i \in 1..Len(ids) |-> ParseEntry(ids[i], s[ids[i]])]

\* parseInt(req.query.count) || dflt
ParseCount(q, dflt) == IF q = 0 THEN dflt ELSE q

(***************************************************************************)
(* History of a consumer group, from its creation to its destruction:      *)
(* observed: the messages readForAgent returned, in the order returned;    *)
(* acked: the IDs that were pending and were acknowledged;                 *)
(* startFrom, lenAtCreate: the ID argument the group was created with and  *)
(* the number of entries the stream held then; resubscribed: POST subscribe *)
(* was answered 200 for the group when it existed (these three are kept in *)
(* the specifications that start with recordCreation).                     *)
(***************************************************************************)
NoHist == [observed |-> << >>, acked |-> {}, startFrom |-> "", lenAtCreate |-> 0,
           resubscribed |-> FALSE]

(***************************************************************************)
(* A connection of GET /:channelId/stream: the closure of the handler.     *)
(* agent: ?agentId=; running: the flag req.on("close") clears; phase: where *)
(* poll() stands ("reading": awaiting readChannel, "writing": in the for   *)
(* loop, "closed": no loop); batch: the messages of the for loop not yet   *)
(* handled; written: the streamIds written with res.write; openedAt: the   *)
(* number of entries the stream held when the connection was opened.       *)
(***************************************************************************)
ConnIds == {"k1", "k2"}
NoConn == [agent |-> NoAgent, running |-> FALSE, phase |-> "closed",
           batch |-> << >>, written |-> {}, openedAt |-> 0]

(***************************************************************************)
(* routes/notifications.js: the inbox of each agent and its connections.   *)
(* pubsub is null: require('../services/notification-pubsub') finds no     *)
(* module in this source tree.                                             *)
(***************************************************************************)
InboxAgents == {"agent_1f"}
\* the agents notifications are added for
NotifiedAgents == {"agent_1f", "agent_1"}
\* the connections of GET /:agentId/stream
SseIds == {"s1"}
\* the id of no stored notification
UnknownNotif == 0

\* history of an inbox: the notifications stored in it since it was last
\* emptied or handed out
NoInboxHist == [sinceEmptied |-> 0]

\* history of an agent's connections: the connections whose transport is
\* open, and whether res.write was called on one that is closed
\* (closed: the connections that were closed; flushed: a connection was
\* opened while the inbox held two notifications or more)
NoSseHist == [open |-> {}, closed |-> {}, deadWrite |-> FALSE, flushed |-> FALSE]

\* res.write / client.write on each of these connections of an agent
Written(h, clients) == [h EXCEPT !.deadWrite = @ \/ ~(clients \subseteq h.open)]

\* what the notification routes never touch
nonInboxVars == <<redisUp, stream, groups, channels, savedChannels, savedMessages,
                  nextMsg, reads, answered, hist, justRestarted, recordCreation,
                  listings, conns, sock, hookVars>>

\* if (inbox.length > 50)
OverflowsLate(inbox) == Len(inbox) > MaxInbox + 1

Overflows(inbox) == Len(inbox) > MaxInbox

\* inbox.shift()
EvictNewest(inbox) == SubSeq(inbox, 1, Len(inbox) - 1)

Evict(inbox) == Tail(inbox)

\* inbox.push(notifWithMeta); if (inbox.length > 50) inbox.shift()
Stored(inbox, notif) ==
    LET pushed == Append(inbox, notif)
    IN IF Overflows(pushed) THEN Evict(pushed) ELSE pushed

\* pubsub.publish(agentId, notifWithMeta) of services/notification-pubsub, a
\* module that is not in this source tree: one more fan-out record for the
\* instances to deliver to the connections they hold
publish(records, a) == [records EXCEPT ![a] = @ + 1]

\* (mutant) a push path that is never taken
PushesLocallyNever(clients) == FALSE

\* if (clients && clients.size > 0)
PushesLocally(clients) == clients # {}

\* addNotification(agentId, notification): handed to pubsub when there is
\* one and its publish succeeds; else written to the agent's open connections
\* if there are any, stored otherwise.  The ids, random in the code, name the
\* stored notifications in the order of storing.
addNotification(a) ==
    /\ stored < MaxStored
    /\ \/ \* await pubsub.publish(agentId, notifWithMeta); return
          /\ pubsub
          /\ published[a] < MaxAdded
          /\ published' = publish(published, a)
          /\ UNCHANGED <<inboxes, stored, inboxHist, sseHist>>
       \/ \* pubsub is null, or publish threw
          /\ published' = published
          /\ IF PushesLocally(sseClients[a])
             THEN /\ sseHist' = [sseHist EXCEPT ![a] = Written(@, sseClients[a])]
                  /\ UNCHANGED <<inboxes, stored, inboxHist>>
             ELSE /\ stored' = stored + 1
                  /\ inboxes' = [inboxes EXCEPT
                                    ![a] = Stored(@, [id |-> stored + 1, read |-> FALSE])]
                  /\ inboxHist' = [inboxHist EXCEPT ![a].sinceEmptied = @ + 1]
                  /\ sseHist' = sseHist
    /\ UNCHANGED <<sseClients, pubsub, heartbeats, nonInboxVars>>

\* isConnected(agentId)
isConnected(a) == sseClients[a] # {}

\* GET /:agentId: the notifications of the response
GetBody(a) == inboxes[a]

\* (mutant) a read that clears whatever ?ack= says
DrainedAlways(inbox, ack) == << >>

\* if (req.query.ack === 'true') inboxes.set(agentId, [])
Drained(inbox, ack) == IF ack THEN << >> ELSE inbox

\* GET /:agentId, with ?ack=true or without
GetNotifications(a, ack) ==
    /\ inboxes' = [inboxes EXCEPT ![a] = Drained(@, ack)]
    /\ inboxHist' = IF ack THEN [inboxHist EXCEPT ![a] = NoInboxHist] ELSE inboxHist
    /\ UNCHANGED <<sseClients, stored, pushStateVars, nonInboxVars>>

\* const pending = inboxes.get(agentId) || []; for (const notif of pending)
\* res.write(...): the notifications the handler writes to the connection
PendingWrites(a) == inboxes[a]

\* (mutant) a handler that leaves the inbox as it is after the writes
FlushedKept(inbox) == inbox

\* if (pending.length > 0) inboxes.set(agentId, [])
Flushed(inbox) == << >>

\* GET /:agentId/stream on the free connection k: the connection is
\* registered, the stored notifications are written to it, the inbox is
\* emptied and the heartbeat interval is set
OpenNotificationStream(a, k) ==
    /\ k \notin sseClients[a]
    /\ k \notin sseHist[a].open
    /\ sseClients' = [sseClients EXCEPT ![a] = @ \cup {k}]
    /\ inboxes' = [inboxes EXCEPT ![a] = Flushed(@)]
    /\ inboxHist' = [inboxHist EXCEPT ![a] = NoInboxHist]
    /\ heartbeats' = [heartbeats EXCEPT ![a] = @ \cup {k}]
    /\ sseHist' = [sseHist EXCEPT ![a].open = @ \cup {k},
                                  ![a].flushed = @ \/ Len(PendingWrites(a)) >= 2]
    /\ UNCHANGED <<stored, pubsub, published, nonInboxVars>>

\* the interval of a connection fires: res.write of a heartbeat event
Heartbeat(a, k) ==
    /\ k \in heartbeats[a]
    /\ sseHist' = [sseHist EXCEPT ![a] = Written(@, {k})]
    /\ UNCHANGED <<inboxes, sseClients, stored, inboxHist, pubsub, published,
                   heartbeats, nonInboxVars>>

\* (mutant) a close handler that leaves the interval set
clearIntervalForgotten(timers, k) == timers

\* clearInterval(heartbeat)
clearInterval(timers, k) == timers \ {k}

\* sseClients.get(agentId)?.delete(res)
Unregistered(clients, k) == clients \ {k}

\* the transport of connection k closes; req.on('close'):
\* clearInterval(heartbeat), sseClients.get(agentId)?.delete(res)
CloseNotificationStream(a, k) ==
    /\ k \in sseHist[a].open
    /\ heartbeats' = [heartbeats EXCEPT ![a] = clearInterval(@, k)]
    /\ sseClients' = [sseClients EXCEPT ![a] = Unregistered(@, k)]
    /\ sseHist' = [sseHist EXCEPT ![a].open = @ \ {k}, ![a].closed = @ \cup {k}]
    /\ UNCHANGED <<inboxes, stored, inboxHist, pubsub, published, nonInboxVars>>

\* DELETE /:agentId
DeleteNotifications(a) ==
    /\ inboxes' = [inboxes EXCEPT ![a] = << >>]
    /\ inboxHist' = [inboxHist EXCEPT ![a] = NoInboxHist]
    /\ UNCHANGED <<sseClients, stored, pushStateVars, nonInboxVars>>

\* POST /:agentId/:notifId/read: inbox.find(n => n.id === notifId)
MarkRead(a, notifId) ==
    /\ inboxes' = [inboxes EXCEPT ![a] =
                      IF \E i \in 1..Len(@) : @[i].id = notifId
                      THEN LET first == CHOOSE i \in 1..Len(@) :
                                           /\ @[i].id = notifId
                                           /\ \A j \in 1..(i - 1) : @[j].id # notifId
                           IN [@ EXCEPT ![first].read = TRUE]
                      ELSE @]
    /\ UNCHANGED <<sseClients, stored, inboxHist, pushStateVars, nonInboxVars>>

\* POST /:agentId/read-all
MarkAllRead(a) ==
    /\ inboxes' = [inboxes EXCEPT ![a] = [i \in 1..Len(@) |-> [@[i] EXCEPT !.read = TRUE]]]
    /\ UNCHANGED <<sseClients, stored, inboxHist, pushStateVars, nonInboxVars>>

(***************************************************************************)
(* services/webhooks.js: the registry, register and unregister             *)
(***************************************************************************)
\* TLA+ strings have no characters: Characters names those of every agent id
\* and message content of the model
Characters ==
    ("" :> << >>) @@ ("hi" :> <<"h","i">>) @@
    ("alice" :> <<"a","l","i","c","e">>) @@ ("bob" :> <<"b","o","b">>) @@
    ("agent_1f" :> <<"a","g","e","n","t","_","1","f">>) @@
    ("agent_1" :> <<"a","g","e","n","t","_","1">>) @@
    ("@agent_1f" :> <<"@","a","g","e","n","t","_","1","f">>) @@
    ("@AGENT_1F" :> <<"@","A","G","E","N","T","_","1","F">>) @@
    ("@agent_1" :> <<"@","a","g","e","n","t","_","1">>) @@
    ("@agent_1f, @agent_1f!" :>
        <<"@","a","g","e","n","t","_","1","f",","," ",
          "@","a","g","e","n","t","_","1","f","!">>) @@
    ("agent_1f@" :> <<"a","g","e","n","t","_","1","f","@">>) @@
    ("s3cret" :> <<"s","3","c","r","e","t">>) @@ ("dm" :> <<"d","m">>) @@
    ("mention" :> <<"m","e","n","t","i","o","n">>) @@
    ("channel_subscribed" :>
        <<"c","h","a","n","n","e","l","_","s","u","b","s","c","r","i","b","e","d">>)

NoHook == [agent_id |-> ""]
NoRow == [agent_id |-> ""]
\* a column that is NULL
Null == "NULL"

\* the events of POST /register
DefaultEvents == <<"mention", "dm">>

\* INSERT ... ON CONFLICT(agent_id) DO UPDATE SET url, events,
\* failure_count = 0, enabled = 1: the secret and the two timestamps of an
\* existing row stay
UpsertKeepingCount(row, a, url, secret, events) ==
    IF row = NoRow
    THEN [agent_id |-> a, url |-> url, secret |-> secret, events |-> events,
          last_success |-> Null, last_failure |-> Null,
          failure_count |-> 0, enabled |-> 1]
    ELSE [row EXCEPT !.url = url, !.events = events, !.enabled = 1]

Upsert(row, a, url, secret, events) ==
    IF row = NoRow
    THEN [agent_id |-> a, url |-> url, secret |-> secret, events |-> events,
          last_success |-> Null, last_failure |-> Null,
          failure_count |-> 0, enabled |-> 1]
    ELSE [row EXCEPT !.url = url, !.events = events,
                     !.failure_count = 0, !.enabled = 1]

\* history of a registration: the failures since it was made or last
\* succeeded, of the deliveries sent under it (own) and of all deliveries
\* (all); whether it replaced a disabled one; whether a call of fireWebhook
\* for it returned at the check of the events; the secret register returned
\* for it (0: none)
NoHookHist == [own |-> 0, all |-> 0, reenabled |-> FALSE, skipped |-> FALSE,
               secret |-> 0]

\* history: the deliveries in flight for agent a were sent under a
\* registration that is replaced or removed
Superseded(inFlight, a) ==
    LET old(att) == IF att.agent = a THEN [att EXCEPT !.current = FALSE] ELSE att
    IN [r \in {old(att) : att \in BagToSet(inFlight)} |->
          CopiesIn(r, inFlight)
          + (IF r.agent = a THEN CopiesIn([r EXCEPT !.current = TRUE], inFlight) ELSE 0)]

\* the secrets some row, registry entry or delivery in flight holds
SecretsHeld ==
    {agent_webhooks[a].secret : a \in {b \in HookAgents : agent_webhooks[b] # NoRow}}
    \cup {webhooks[a].secret : a \in {b \in HookAgents : webhooks[b] # NoHook}}
    \cup {att.signature.key : att \in BagToSet(attempts)}

\* crypto.randomBytes(32).toString('hex'): a secret that was never generated
\* before, named by the least number no one holds
generateSecret == CHOOSE n \in 1..(Cardinality(SecretsHeld) + 1) : n \notin SecretsHeld

\* register(agentId, url, events): a new secret, the row written, the
\* registry entry replaced
register(a, url, events) ==
    LET secret == generateSecret
    IN /\ agent_webhooks' = [agent_webhooks EXCEPT
                                ![a] = Upsert(@, a, url, secret, events)]
       /\ webhooks' = [webhooks EXCEPT
                          ![a] = [agent_id |-> a, url |-> url, secret |-> secret,
                                  events |-> events, enabled |-> 1]]
       \* history: a new registration; whether it replaces a disabled one;
       \* the deliveries in flight were sent under an earlier one
       /\ hookHist' = [hookHist EXCEPT
                          ![a] = [NoHookHist EXCEPT
                                    !.reenabled = (agent_webhooks[a] # NoRow
                                                   /\ agent_webhooks[a].enabled = 0),
                                    \* return { agentId, url, secret, events }
                                    !.secret = secret]]
       /\ attempts' = Superseded(attempts, a)

\* POST /register (url a valid http url, events valid or absent)
RegisterRoute(a, url, events) ==
    /\ register(a, url, events)
    /\ justRestarted' = FALSE
    /\ UNCHANGED nonHookVars

(***************************************************************************)
(* PUT /agents/:agentId/webhook (routes/agents.js)                         *)
(***************************************************************************)
\* the ids of the Map agents of routes/agents.js
agents == {"agent_1f"}

\* a field that the request body does not have
Absent == ""

\* String.prototype.includes
StringIncludes(string, part) ==
    LET s == Characters[string]
        t == Characters[part]
    IN \E i \in 1..(Len(s) - Len(t) + 1) : SubSeq(s, i, i + Len(t) - 1) = t

\* the event names of the service
EventNames == <<"mention", "dm", "channel_subscribed">>

\* what register takes for its third parameter, events = ['mention', 'dm'],
\* when it is called with that argument: the default for undefined, and
\* else the argument.  An argument that is a string is stored as a string,
\* and hook.events.includes(event) then is String.prototype.includes: the
\* string stands here as the event names it includes.
EventsParameter(argument) ==
    IF argument = Absent THEN DefaultEvents
    ELSE SelectSeq(EventNames, LAMBDA e : StringIncludes(argument, e))

PutWebhookStatus(a, url) ==
    IF a \notin agents THEN 404
    ELSE IF url = Absent THEN 400
    ELSE 200

\* the route: webhooks.register(agentId, url, secret, events), a call with
\* four arguments of register(agentId, url, events): the secret of the body
\* is taken for the events, and the events of the body are dropped
PutWebhook(a, url, secret, events) ==
    /\ IF PutWebhookStatus(a, url) # 200
       THEN UNCHANGED hookVars
       ELSE register(a, url, EventsParameter(secret))
    /\ justRestarted' = (justRestarted /\ PutWebhookStatus(a, url) # 200)
    /\ UNCHANGED nonHookVars

\* unregister(agentId), DELETE /:agentId
unregister(a) ==
    /\ agent_webhooks' = [agent_webhooks EXCEPT ![a] = NoRow]
    /\ webhooks' = [webhooks EXCEPT ![a] = NoHook]
    /\ hookHist' = [hookHist EXCEPT ![a] = NoHookHist]
    /\ attempts' = Superseded(attempts, a)
    /\ justRestarted' = FALSE
    /\ UNCHANGED nonHookVars

\* (mutant) SELECT * FROM agent_webhooks
initializeAll(rows) ==
    [a \in DOMAIN rows |->
        IF rows[a] # NoRow
        THEN [agent_id |-> a, url |-> rows[a].url, secret |-> rows[a].secret,
              events |-> rows[a].events, enabled |-> 1]
        ELSE NoHook]

\* initialize(): SELECT * FROM agent_webhooks WHERE enabled = 1
initialize(rows) ==
    [a \in DOMAIN rows |->
        IF rows[a] # NoRow /\ rows[a].enabled = 1
        THEN [agent_id |-> a, url |-> rows[a].url, secret |-> rows[a].secret,
              events |-> rows[a].events, enabled |-> 1]
        ELSE NoHook]

\* getWebhook(agentId): webhooks.get
getWebhook(a) == IF a \in DOMAIN webhooks THEN webhooks[a] ELSE NoHook

(***************************************************************************)
(* extractMentions: /@(agent_[a-f0-9]+)/gi, each match lower-cased         *)
(***************************************************************************)
HexDigits == {"0", "1", "2", "3", "4", "5", "6", "7", "8", "9",
              "a", "b", "c", "d", "e", "f"}

toLowerCase(ch) ==
    CASE ch = "A" -> "a" [] ch = "B" -> "b" [] ch = "C" -> "c" [] ch = "D" -> "d"
      [] ch = "E" -> "e" [] ch = "F" -> "f" [] ch = "G" -> "g" [] ch = "N" -> "n"
      [] ch = "T" -> "t" [] OTHER -> ch

LowerCased(chars) == [i \in 1..Len(chars) |-> toLowerCase(chars[i])]

\* the string of the model with these characters
FromCharacters(chars) ==
    IF \E s \in DOMAIN Characters : Characters[s] = chars
    THEN CHOOSE s \in DOMAIN Characters : Characters[s] = chars
    ELSE "?"

\* [a-f0-9]+ under the flag i, from position i: the length of the longest run
RECURSIVE HexRun(_, _)
HexRun(chars, i) ==
    IF i > Len(chars) \/ toLowerCase(chars[i]) \notin HexDigits
    THEN 0
    ELSE 1 + HexRun(chars, i + 1)

\* match[1] of a match that starts at position i, << >> when there is none
MatchAt(chars, i) ==
    IF /\ i + 7 <= Len(chars)
       /\ chars[i] = "@"
       /\ LowerCased(SubSeq(chars, i + 1, i + 6)) = <<"a", "g", "e", "n", "t", "_">>
       /\ HexRun(chars, i + 7) > 0
    THEN SubSeq(chars, i + 1, i + 6 + HexRun(chars, i + 7))
    ELSE << >>

\* while ((match = agentIdPattern.exec(content)) !== null) mentions.add(...):
\* the Set keeps the order of first insertion
RECURSIVE ScanMentionsRepeating(_, _, _)
ScanMentionsRepeating(chars, i, mentions) ==
    IF i > Len(chars) THEN mentions
    ELSE LET match == MatchAt(chars, i)
             id == FromCharacters(LowerCased(match))
         IN IF match = << >>
            THEN ScanMentionsRepeating(chars, i + 1, mentions)
            ELSE ScanMentionsRepeating(chars, i + 1 + Len(match),
                                       Append(mentions, id))

RECURSIVE ScanMentions(_, _, _)
ScanMentions(chars, i, mentions) ==
    IF i > Len(chars) THEN mentions
    ELSE LET match == MatchAt(chars, i)
             id == FromCharacters(LowerCased(match))
         IN IF match = << >>
            THEN ScanMentions(chars, i + 1, mentions)
            ELSE ScanMentions(chars, i + 1 + Len(match),
                              IF id \in Range(mentions) THEN mentions
                              ELSE Append(mentions, id))

extractMentions(content) == ScanMentions(Characters[content], 1, << >>)

(***************************************************************************)
(* fireWebhook and dispatchForMessage                                      *)
(***************************************************************************)
\* signPayload: the HMAC of the payload under the secret
signPayload(payload, secret) == [alg |-> "sha256", key |-> secret, of |-> payload]

\* fireWebhook(agentId, event, data) up to its await fetch(...): the
\* deliveries it sends, none or one
fireWebhookUnfiltered(a, event, data) ==
    LET hook == getWebhook(a)
    IN IF hook = NoHook \/ hook.enabled # 1 THEN {}
       ELSE {[agent |-> a, event |-> event, data |-> data, url |-> hook.url,
              signature |-> signPayload(<<event, data>>, hook.secret),
              current |-> TRUE]}

fireWebhook(a, event, data) ==
    LET hook == getWebhook(a)
    IN IF hook = NoHook \/ hook.enabled # 1 THEN {}
       ELSE IF event \notin Range(hook.events) THEN {}
       ELSE {[agent |-> a, event |-> event, data |-> data, url |-> hook.url,
              signature |-> signPayload(<<event, data>>, hook.secret),
              current |-> TRUE]}

\* a call of fireWebhook that returns at the check of the events
SkipsEvent(a, event) ==
    /\ getWebhook(a) # NoHook
    /\ getWebhook(a).enabled = 1
    /\ event \notin Range(getWebhook(a).events)

\* the data of a call that no message of the model stands behind
NoData == [test |-> TRUE]

\* fireWebhook is called (by dispatchForMessage or by POST /test/:agentId)
\* and runs to its await
FireWebhook(a, event) ==
    /\ BagCardinality(attempts) < MaxInFlight
    /\ attempts' = attempts (+) SetToBag(fireWebhook(a, event, NoData))
    /\ justRestarted' = (justRestarted /\ attempts' = attempts)
    /\ hookHist' = IF SkipsEvent(a, event)
                   THEN [hookHist EXCEPT ![a].skipped = TRUE]
                   ELSE hookHist
    /\ UNCHANGED <<webhooks, agent_webhooks, nonHookVars>>

\* if (updated && updated.failure_count >= 5)
DisablingAbove(failure_count) == failure_count > DisableAfter

Disabling(failure_count) == failure_count >= DisableAfter

\* the time written by an UPDATE: some time
Now == "new Date().toISOString()"

\* response.ok: UPDATE ... SET last_success = ?, failure_count = 0
RecordSuccessEnabling(row, att) ==
    IF row = NoRow THEN row
    ELSE [row EXCEPT !.last_success = Now, !.failure_count = 0,
                     !.enabled = 1]

RecordSuccessKeepingCount(row, att) ==
    IF row = NoRow THEN row
    ELSE [row EXCEPT !.last_success = Now]

RecordSuccess(row, att) ==
    IF row = NoRow THEN row
    ELSE [row EXCEPT !.last_success = Now, !.failure_count = 0]

\* UPDATE ... SET last_failure = ?, failure_count = failure_count + 1
RecordFailure(row, att) ==
    IF row = NoRow THEN row
    ELSE [row EXCEPT !.last_failure = Now, !.failure_count = @ + 1]

\* the fetch of att is answered with a 2xx status
DeliverySucceeded(att) ==
    /\ BagIn(att, attempts)
    /\ attempts' = attempts (-) SetToBag({att})
    /\ agent_webhooks' = [agent_webhooks EXCEPT ![att.agent] = RecordSuccess(@, att)]
    /\ hookHist' = [hookHist EXCEPT ![att.agent].own = 0, ![att.agent].all = 0]
    /\ justRestarted' = FALSE
    /\ UNCHANGED <<webhooks, nonHookVars>>

\* the fetch of att is answered with another status, fails, or is aborted
\* after 10 s: the failure is counted and at the fifth in a row the row is
\* disabled and the registry entry deleted
DeliveryFailed(att) ==
    /\ BagIn(att, attempts)
    /\ attempts' = attempts (-) SetToBag({att})
    /\ LET a == att.agent
           updated == RecordFailure(agent_webhooks[a], att)
           disable == updated # NoRow /\ Disabling(updated.failure_count)
       IN /\ agent_webhooks' = [agent_webhooks EXCEPT
                                   ![a] = IF disable THEN [updated EXCEPT !.enabled = 0]
                                          ELSE updated]
          /\ webhooks' = IF disable THEN [webhooks EXCEPT ![a] = NoHook] ELSE webhooks
          /\ hookHist' = [hookHist EXCEPT
                             ![a].all = @ + 1,
                             ![a].own = IF att.current THEN @ + 1 ELSE @]
    /\ justRestarted' = FALSE
    /\ UNCHANGED nonHookVars

\* for (const sub of subscribers) ... toNotify.add(sub)
RECURSIVE AddSubscribers(_, _)
AddSubscribers(toNotify, subscribers) ==
    IF subscribers = << >> THEN toNotify
    ELSE LET sub == Head(subscribers)
             hook == getWebhook(sub)
         IN AddSubscribers(
               IF /\ hook # NoHook
                  /\ "channel_subscribed" \in Range(hook.events)
                  /\ sub \notin Range(toNotify)
               THEN Append(toNotify, sub) ELSE toNotify,
               Tail(subscribers))

\* for (const agentId of toNotify) fireWebhook(...): the deliveries sent
RECURSIVE FireAll(_, _, _)
FireAll(toNotify, mentions, data) ==
    IF toNotify = << >> THEN EmptyBag
    ELSE LET a == Head(toNotify)
             sent == fireWebhook(a, IF a \in Range(mentions) THEN "mention"
                                    ELSE "channel_subscribed", data)
         IN SetToBag(sent) (+) FireAll(Tail(toNotify), mentions, data)

\* (a handler that awaits the deliveries has none in flight when it answers)
dispatchAwaited(message, subscribers) == EmptyBag

\* dispatchForMessage(channelId, channelName, message, subscribers): the
\* deliveries it sends before it returns
dispatchForMessage(message, subscribers) ==
    LET mentions == extractMentions(message.content)
        toNotify == SelectSeq(AddSubscribers(mentions, subscribers),
                              LAMBDA a : a # message.agentId)
        data == [message |-> [id |-> message.id, authorId |-> message.agentId,
                              content |-> message.content],
                 mentionedAgents |-> mentions]
    IN FireAll(toNotify, mentions, data)

\* the state after construction, but for the pub/sub module
InitState ==
    /\ redisUp = TRUE
    /\ stream = [c \in Channels |-> << >>]
    \* POST / created the channel: initStreams made its stream and shared group
    /\ groups = [c \in Channels |-> [g \in GroupNames |->
                    IF g = CONSUMER_GROUP THEN initStreams(<< >>, NoGroup) ELSE NoGroup]]
    /\ channels = [c \in Channels |-> [id |-> c, members |-> << >>]]
    /\ savedChannels = channels
    /\ savedMessages = [c \in Channels |-> << >>]
    /\ nextMsg = [c \in Channels |-> 0]
    /\ reads = {}
    /\ answered = [c \in Channels |-> {}]
    /\ hist = [c \in Channels |-> [a \in Agents |-> NoHist]]
    /\ justRestarted = FALSE
    /\ conns = [c \in Channels |-> [k \in ConnIds |-> NoConn]]
    /\ sock = << >>
    /\ webhooks = [a \in HookAgents |-> NoHook]
    /\ agent_webhooks = [a \in HookAgents |-> NoRow]
    /\ attempts = EmptyBag
    /\ hookHist = [a \in HookAgents |-> NoHookHist]
    /\ inboxes = [a \in NotifiedAgents |-> << >>]
    /\ sseClients = [a \in NotifiedAgents |-> {}]
    /\ stored = 0
    /\ inboxHist = [a \in NotifiedAgents |-> NoInboxHist]
    /\ published = [a \in NotifiedAgents |-> 0]
    /\ heartbeats = [a \in NotifiedAgents |-> {}]
    /\ sseHist = [a \in NotifiedAgents |-> NoSseHist]

\* no specification but SpecPending and SpecReject records in listings
NoListings == [kept |-> FALSE, of |-> {}, watched |-> FALSE, rejected |-> FALSE]

\* require('../services/notification-pubsub') throws in this source tree:
\* pubsub is null
InitBase == InitState /\ pubsub = FALSE /\ listings = NoListings

Init == InitBase /\ recordCreation = FALSE

(***************************************************************************)
(* POST /:channelId/message                                                *)
(***************************************************************************)
\* (mutant) the route without its check of agentId
PostStatusUnchecked(c, a) ==
    IF c \notin DOMAIN channels THEN 404 ELSE 201

\* the status the route answers with
PostStatus(c, a) ==
    IF a = NoAgent THEN 400     \* (or no content)
    ELSE IF c \notin DOMAIN channels THEN 404
    ELSE 201

\* what the handler does to everything but the Redis connection
PostHandled(c, a, content) ==
    /\ UNCHANGED <<redisUp, groups, localVars, reads, hist, recordCreation, conns>>
    /\ UNCHANGED <<webhooks, agent_webhooks, hookHist, inboxVars>>
    /\ listings' = Rejected(listings, PostStatus(c, a))
    /\ IF PostStatus(c, a) # 201
       THEN UNCHANGED <<stream, savedMessages, nextMsg, answered, justRestarted,
                        attempts>>
       ELSE /\ nextMsg[c] < MaxPosts
            /\ justRestarted' = FALSE
            /\ LET message == [id |-> nextMsg[c] + 1, agentId |-> a,
                               content |-> content, type |-> "text",
                               metadata |-> EmptyObject]
               IN /\ nextMsg' = [nextMsg EXCEPT ![c] = @ + 1]
                  \* try { await streams.publishToChannel } catch { log }
                  /\ stream' = IF redisUp
                               THEN [stream EXCEPT ![c] = XAdd(@, MsgFields(message))]
                               ELSE stream
                  \* persistence.saveMessage
                  /\ savedMessages' = [savedMessages EXCEPT ![c] = Append(@, message)]
                  \* webhooks.dispatchForMessage(...).catch(...), not awaited
                  /\ attempts' = attempts (+)
                                     dispatchForMessage(message, channels[c].members)
                  /\ BagCardinality(attempts') <= MaxInFlight
                  \* res.status(201).json({ message, recipients })
                  /\ answered' = [answered EXCEPT ![c] = @ \cup {message.id}]

\* the handler, its XADD replied to at once
PostMessage(c, a, content) == PostHandled(c, a, content) /\ UNCHANGED sock

(***************************************************************************)
(* subscribeAgent / unsubscribeAgent and their routes                      *)
(***************************************************************************)
\* subscribeAgent: the reply of XGROUP CREATE, or the connection error
subscribeAgent(c, a, startFrom) ==
    IF ~redisUp
    THEN [err |-> "ECONNREFUSED", group |-> groups[c][AGENT_GROUP(a)]]
    ELSE XGroupCreate(stream[c], groups[c][AGENT_GROUP(a)], startFrom)

\* what subscribeAgent leaves behind when XGROUP CREATE succeeded.  (It also
\* adds the agent to agentSubscriptions, a Map that is written here and in
\* unsubscribeAgent and read nowhere: it is not part of the model.)
Subscribed(c, a, startFrom, r) ==
    /\ groups' = [groups EXCEPT ![c][AGENT_GROUP(a)] = r.group]
    /\ hist' = [hist EXCEPT ![c][a] =
                   IF recordCreation
                   THEN [NoHist EXCEPT !.startFrom = startFrom,
                                       !.lenAtCreate = Len(stream[c])]
                   ELSE NoHist]

\* channel.members.push(agentId) unless included
AddMember(members, a) ==
    IF a \in Range(members) THEN members ELSE Append(members, a)

\* channel.members.filter(id => id !== agentId)
RemoveMember(members, a) == SelectSeq(members, LAMBDA m : m # a)

SubscribeStatus(c, a, startFrom) ==
    IF a = NoAgent THEN 400
    ELSE IF c \notin DOMAIN channels THEN 404
    ELSE IF subscribeAgent(c, a, startFrom).err \notin {"", "BUSYGROUP"} THEN 500
    ELSE 200

\* what the handler does to everything but the Redis connection
SubscribeHandled(c, a, startFrom) ==
    /\ UNCHANGED <<redisUp, stream, savedMessages, nextMsg, reads, answered,
                   unlistedVars>>
    /\ listings' = Rejected(listings, SubscribeStatus(c, a, startFrom))
    /\ IF SubscribeStatus(c, a, startFrom) # 200
       THEN UNCHANGED <<groups, localVars, hist, justRestarted>>
       ELSE LET r == subscribeAgent(c, a, startFrom)
            IN /\ IF r.err = ""
                  THEN Subscribed(c, a, startFrom, r)
                  ELSE /\ groups' = groups
                       /\ hist' = IF recordCreation
                                  THEN [hist EXCEPT ![c][a].resubscribed = TRUE]
                                  ELSE hist
               /\ channels' = [channels EXCEPT ![c].members = AddMember(@, a)]
               \* persistence.saveChannel(channel), if the agent was added
               /\ savedChannels' = IF a \in Range(channels[c].members)
                                    THEN savedChannels ELSE channels'
               /\ justRestarted' = (justRestarted /\ groups' = groups /\ channels' = channels)

\* the handler, its XGROUP CREATE replied to at once
SubscribeRoute(c, a, startFrom) == SubscribeHandled(c, a, startFrom) /\ UNCHANGED sock

UnsubscribeStatus(c, a) ==
    IF a = NoAgent THEN 400
    ELSE IF c \notin DOMAIN channels THEN 404
    ELSE 200

UnsubscribeRoute(c, a) ==
    /\ UNCHANGED <<redisUp, stream, savedMessages, nextMsg, reads, answered,
                   unlistedVars, sock>>
    /\ listings' = Rejected(listings, UnsubscribeStatus(c, a))
    /\ IF UnsubscribeStatus(c, a) # 200
       THEN UNCHANGED <<groups, localVars, hist, justRestarted>>
       ELSE \* unsubscribeAgent: try { XGROUP DESTROY } catch { success: false }
            /\ IF redisUp
               THEN /\ groups' = [groups EXCEPT ![c][AGENT_GROUP(a)] = XGroupDestroy(@)]
                    /\ hist' = [hist EXCEPT ![c][a] = NoHist]
               ELSE UNCHANGED <<groups, hist>>
            /\ channels' = [channels EXCEPT ![c].members = RemoveMember(@, a)]
            \* persistence.saveChannel(channel)
            /\ savedChannels' = channels'
            /\ justRestarted' = (justRestarted /\ groups' = groups /\ channels' = channels)

(***************************************************************************)
(* GET /:channelId/read/:agentId -> readForAgent                           *)
(***************************************************************************)
\* a call of readForAgent; gone: the client of the request has disconnected
ReadRec(c, a, count, block) ==
    [c |-> c, a |-> a, count |-> count, block |-> block, gone |-> FALSE]

\* the route up to the await of XREADGROUP: subscribeAgent(channelId, agentId)
\* creates the group with "$" unless it exists.  A request for an unknown
\* channel is answered 404; an error of subscribeAgent is caught in
\* readForAgent, which returns [].
ReadStatus(c) == IF c \notin DOMAIN channels THEN 404 ELSE 200

ReadRequest(c, a, qcount, qblock) ==
    /\ UNCHANGED <<redisUp, stream, channels, savedChannels, savedMessages,
                   nextMsg, answered, unlistedVars, sock>>
    /\ listings' = Rejected(listings, ReadStatus(c))
    /\ IF c \notin DOMAIN channels \/ subscribeAgent(c, a, "$").err \notin {"", "BUSYGROUP"}
       THEN UNCHANGED <<groups, hist, reads, justRestarted>>
       ELSE LET r == subscribeAgent(c, a, "$")
            IN /\ ReadRec(c, a, ParseCount(qcount, DefaultReadCount), qblock) \notin reads
               /\ Cardinality(reads) < MaxReads
               /\ IF r.err = ""
                  THEN Subscribed(c, a, "$", r)
                  ELSE UNCHANGED <<groups, hist>>
               /\ justRestarted' = FALSE
               /\ reads' = reads \cup
                     {ReadRec(c, a, ParseCount(qcount, DefaultReadCount), qblock)}

\* the messages XREADGROUP gives the call r in the current state
ReadIds(r) == NewIds(stream[r.c], groups[r.c][AGENT_GROUP(r.a)], r.count)
ReadMessages(r) == ParseEntries(stream[r.c], ReadIds(r))

ReadDone(r) ==
    /\ reads' = reads \ {r}
    /\ UNCHANGED <<redisUp, stream, localVars, savedMessages, nextMsg, answered, pushVars, sock>>

\* XREADGROUP finds entries after the group's last delivered ID: the route
\* answers 200 with ReadMessages(r)
ReadDeliver(r) ==
    /\ r \in reads
    /\ redisUp
    /\ groups[r.c][AGENT_GROUP(r.a)].exists
    /\ ReadIds(r) # << >>
    /\ justRestarted' = FALSE
    /\ groups' = [groups EXCEPT ![r.c][AGENT_GROUP(r.a)] = Delivered(@, ReadIds(r))]
    /\ hist' = [hist EXCEPT ![r.c][r.a].observed = @ \o ReadMessages(r)]
    /\ ReadDone(r)

\* XREADGROUP without BLOCK finds nothing: the reply is nil, the route
\* answers 200 with no messages
ReadEmpty(r) ==
    /\ r \in reads
    /\ redisUp
    /\ groups[r.c][AGENT_GROUP(r.a)].exists
    /\ ReadIds(r) = << >>
    /\ r.block <= 0
    /\ UNCHANGED <<groups, hist>>
    /\ justRestarted' = FALSE
    /\ ReadDone(r)

\* XREADGROUP BLOCK ms found nothing for ms milliseconds: the reply is nil
ReadTimeout(r) ==
    /\ r \in reads
    /\ redisUp
    /\ groups[r.c][AGENT_GROUP(r.a)].exists
    /\ ReadIds(r) = << >>
    /\ r.block > 0
    /\ UNCHANGED <<groups, hist>>
    /\ justRestarted' = FALSE
    /\ ReadDone(r)

\* XREADGROUP fails (NOGROUP, or no connection): caught, return []
ReadError(r) ==
    /\ r \in reads
    /\ ~redisUp \/ ~groups[r.c][AGENT_GROUP(r.a)].exists
    /\ UNCHANGED <<groups, hist>>
    /\ justRestarted' = FALSE
    /\ ReadDone(r)

\* the client of a read that awaits its XREADGROUP disconnects.  The route
\* sets no handler for it (no req.on("close")): the call goes on
ClientDisconnects(r) ==
    /\ r \in reads
    /\ ~r.gone
    /\ reads' = (reads \ {r}) \cup {[r EXCEPT !.gone = TRUE]}
    /\ UNCHANGED <<redisUp, stream, groups, localVars, savedMessages, nextMsg, answered,
                   hist, justRestarted, pushVars, sock>>

(***************************************************************************)
(* GET /:channelId/pending/:agentId -> getPendingForAgent                  *)
(***************************************************************************)
\* the result of getPendingForAgent: XPENDING, then XRANGE id id for each
getPendingForAgent(c, a, count) ==
    LET g   == groups[c][AGENT_GROUP(a)]
        ids == XPending(g, count)
        found == SelectSeq(ids, LAMBDA id : XRange(stream[c], id) # << >>)
    IN IF ~redisUp \/ ~g.exists
       THEN [error |-> TRUE, count |-> 0, messages |-> << >>]
       ELSE [error |-> FALSE, count |-> Len(found),
             messages |-> ParseEntries(stream[c], found)]

\* the body the route answers with (status 200), for ?count=qcount
PendingBody(c, a, qcount) ==
    getPendingForAgent(c, a, ParseCount(qcount, DefaultPendingCount))

PendingStatus(c, a) == IF c \notin DOMAIN channels THEN 404 ELSE 200

\* the listings with one more request answered 200, where they are kept
Listed(c, a) ==
    IF listings.kept /\ PendingStatus(c, a) = 200
    THEN [listings EXCEPT !.of = @ \cup {<<c, a>>}]
    ELSE listings

\* (mutant) a route that takes what it lists out of the pending entries list
PendingRouteDraining(c, a, qcount) ==
    /\ PendingStatus(c, a) \in {200, 404}
    /\ listings' = Rejected(Listed(c, a), PendingStatus(c, a))
    /\ groups' = IF PendingStatus(c, a) = 200 /\ redisUp
                 THEN [groups EXCEPT ![c][AGENT_GROUP(a)] =
                          XAck(@, Range(XPending(@, ParseCount(qcount, DefaultPendingCount))))]
                 ELSE groups
    /\ UNCHANGED <<redisUp, stream, localVars, savedMessages, nextMsg, reads, answered,
                   hist, justRestarted, recordCreation, conns, hookVars, inboxVars, sock>>

\* the route sends XPENDING and XRANGE, which read, and changes nothing
PendingRoute(c, a, qcount) ==
    /\ PendingStatus(c, a) \in {200, 404}
    /\ listings' = Rejected(Listed(c, a), PendingStatus(c, a))
    /\ UNCHANGED <<redisUp, stream, groups, localVars, savedMessages, nextMsg, reads,
                   answered, hist, justRestarted, recordCreation, conns, hookVars,
                   inboxVars, sock>>

(***************************************************************************)
(* POST /:channelId/ack -> ackForAgent / ackBatchForAgent                  *)
(***************************************************************************)
\* (mutant) XACK refusing an ID that is not pending
AckReplyStrict(c, a, ids) ==
    LET g == groups[c][AGENT_GROUP(a)]
    IN IF ~redisUp THEN [err |-> "ECONNREFUSED", n |-> 0, group |-> g]
       ELSE IF ~g.exists THEN [err |-> "", n |-> 0, group |-> g]
       ELSE IF BadId \in ids \/ ~(ids \subseteq g.pel)
       THEN [err |-> "ERR not pending", n |-> 0, group |-> g]
       ELSE [err |-> "", n |-> XAckCount(g, ids), group |-> XAck(g, ids)]

\* XACK key group id ...: [err, n, group]; ids is {messageId} or the
\* messageIds of the body
AckReply(c, a, ids) ==
    LET g == groups[c][AGENT_GROUP(a)]
    IN IF ~redisUp THEN [err |-> "ECONNREFUSED", n |-> 0, group |-> g]
       ELSE IF ~g.exists THEN [err |-> "", n |-> 0, group |-> g]
       ELSE IF BadId \in ids THEN [err |-> "ERR Invalid stream ID", n |-> 0, group |-> g]
       ELSE [err |-> "", n |-> XAckCount(g, ids), group |-> XAck(g, ids)]

\* the status and the "acknowledged" of the answer
AckStatus(c, a, ids) ==
    IF a = NoAgent \/ ids = {} THEN 400    \* ids = {}: no messageId, no messageIds
    ELSE IF c \notin DOMAIN channels THEN 404
    ELSE IF AckReply(c, a, ids).err # "" THEN 500
    ELSE 200

Acknowledged(c, a, ids) == AckReply(c, a, ids).n

\* what the handler does to everything but the Redis connection
AckHandled(c, a, ids) ==
    /\ UNCHANGED <<redisUp, stream, localVars, savedMessages, nextMsg, reads, answered,
                   unlistedVars>>
    /\ listings' = Rejected(listings, AckStatus(c, a, ids))
    /\ IF AckStatus(c, a, ids) # 200
       THEN UNCHANGED <<groups, hist>>
       ELSE /\ groups' = [groups EXCEPT ![c][AGENT_GROUP(a)] = AckReply(c, a, ids).group]
            /\ hist' = [hist EXCEPT ![c][a].acked =
                           @ \cup (ids \cap groups[c][AGENT_GROUP(a)].pel)]
    /\ justRestarted' = (justRestarted /\ groups' = groups)

\* the handler, its XACK replied to at once
AckRoute(c, a, ids) == AckHandled(c, a, ids) /\ UNCHANGED sock

(***************************************************************************)
(* GET /:channelId/status/:agentId -> getAgentStatus                       *)
(***************************************************************************)
\* XINFO GROUPS, the entry of the agent's group
getAgentStatus(c, a) ==
    LET g == groups[c][AGENT_GROUP(a)]
    IN IF ~redisUp \/ ~g.exists
       THEN [subscribed |-> FALSE, pending |-> 0, last_delivered_id |-> 0]
       ELSE [subscribed |-> TRUE, pending |-> Cardinality(g.pel),
             last_delivered_id |-> g.last_id]

StatusStatus(c) == IF c \in DOMAIN channels THEN 200 ELSE 404

\* the route changes nothing
StatusRoute(c, a) ==
    /\ StatusStatus(c) = 200 => getAgentStatus(c, a).pending >= 0
    /\ UNCHANGED vars

(***************************************************************************)
(* The environment: Redis becomes unreachable and reachable again; the     *)
(* serving process crashes and is started again.                           *)
(***************************************************************************)
RedisDown ==
    /\ redisUp
    /\ redisUp' = FALSE
    /\ UNCHANGED <<stream, groups, localVars, savedMessages, nextMsg, reads,
                   answered, hist, justRestarted, pushVars, sock>>

RedisUp ==
    /\ ~redisUp
    /\ redisUp' = TRUE
    /\ UNCHANGED <<stream, groups, localVars, savedMessages, nextMsg, reads,
                   answered, hist, justRestarted, pushVars, sock>>

\* channels.js initialize(): the registry is loaded from persistence and
\* initStreams is called for its channels; handlers in flight, connections
\* and the commands on the Redis connection are gone
Restart ==
    /\ channels' = savedChannels
    \* initialize().catch(console.error) when Redis cannot be reached
    /\ groups' = IF redisUp
                 THEN [c \in Channels |->
                         [groups[c] EXCEPT ![CONSUMER_GROUP] = initStreams(stream[c], @)]]
                 ELSE groups
    /\ redisUp' = redisUp
    /\ stream' = stream
    /\ reads' = {}
    /\ justRestarted' = TRUE
    /\ conns' = [c \in Channels |-> [k \in ConnIds |-> NoConn]]
    /\ sock' = << >>
    \* index.js main(): webhooks.initialize(); the deliveries in flight are
    \* never completed
    /\ webhooks' = initialize(agent_webhooks)
    /\ attempts' = EmptyBag
    \* notifications.js: inboxes and sseClients are new Maps
    /\ inboxes' = [a \in NotifiedAgents |-> << >>]
    /\ sseClients' = [a \in NotifiedAgents |-> {}]
    /\ inboxHist' = [a \in NotifiedAgents |-> NoInboxHist]
    /\ stored' = stored
    \* the connections end with the process, and its timers
    /\ heartbeats' = [a \in NotifiedAgents |-> {}]
    /\ sseHist' = [a \in NotifiedAgents |-> NoSseHist]
    /\ UNCHANGED <<pubsub, published>>
    /\ UNCHANGED <<savedChannels, savedMessages, nextMsg, answered, hist,
                   recordCreation, listings, agent_webhooks, hookHist>>

Next ==
    \/ \E c \in Channels, a \in Authors, content \in Contents :
          PostMessage(c, a, content)
    \/ \E c \in Channels, a \in Agents, s \in StreamIds : SubscribeRoute(c, a, s)
    \/ \E c \in Channels, a \in Agents : UnsubscribeRoute(c, a)
    \/ \E c \in Channels, a \in Agents, qc \in PositiveCounts : ReadRequest(c, a, qc, 0)
    \/ \E r \in reads : ReadDeliver(r)
    \/ \E r \in reads : ReadEmpty(r)
    \/ \E r \in reads : ReadError(r)
    \/ \E c \in Channels, a \in Agents, qc \in QueryCounts : PendingRoute(c, a, qc)
    \/ \E c \in Channels, a \in Agents, id \in 1..MaxPosts : AckRoute(c, a, {id})
    \/ \E c \in Channels, a \in Agents, ids \in SUBSET (1..MaxPosts) :
          ids # {} /\ AckRoute(c, a, ids)
    \/ \E c \in Channels, a \in Agents : StatusRoute(c, a)
    \/ Restart

Spec == Init /\ [][Next]_vars

(***************************************************************************)
(* SpecEdge: one agent, any request (no agentId, an unknown channel, a     *)
(* startFrom or messageId that is no stream ID, a negative count, a        *)
(* blocking read), and a Redis server that comes and goes.  The history    *)
(* records how each group was created.                                     *)
(***************************************************************************)
InitEdge == InitBase /\ recordCreation = TRUE

NextEdge ==
    \/ \E c \in ChannelIds, a \in EdgeBodyAgents, content \in Contents :
          PostMessage(c, a, content)
    \/ \E c \in ChannelIds, a \in EdgeBodyAgents, s \in StartFroms :
          SubscribeRoute(c, a, s)
    \/ \E c \in ChannelIds, a \in EdgeBodyAgents : UnsubscribeRoute(c, a)
    \/ \E c \in ChannelIds, a \in EdgeAgents, qc \in QueryCounts, qb \in QueryBlocks :
          ReadRequest(c, a, qc, qb)
    \/ \E r \in reads : ReadDeliver(r)
    \/ \E r \in reads : ReadEmpty(r)
    \/ \E r \in reads : ReadTimeout(r)
    \/ \E r \in reads : ReadError(r)
    \/ \E c \in ChannelIds, a \in EdgeAgents, qc \in QueryCounts : PendingRoute(c, a, qc)
    \/ \E c \in ChannelIds, a \in EdgeBodyAgents, id \in AckIds : AckRoute(c, a, {id})
    \/ \E c \in ChannelIds, a \in EdgeAgents : StatusRoute(c, a)
    \/ RedisDown
    \/ RedisUp

SpecEdge == InitEdge /\ [][NextEdge]_vars

(***************************************************************************)
(* GET /:channelId/stream: the handler opens the event stream and starts   *)
(* poll(), which loops while (running): await readChannel(channelId,       *)
(* consumerName, 10, 5000); for each message: res.write unless it is the   *)
(* agent's own, then await ackMessage.  Every connection reads with its    *)
(* own consumer name in the one group CONSUMER_GROUP of the stream.        *)
(***************************************************************************)
StreamStatus(c, a) ==
    IF a = NoAgent THEN 400
    ELSE IF c \notin DOMAIN channels THEN 404
    ELSE 200

\* what the stream handlers never touch
nonStreamVars == <<redisUp, stream, channels, savedChannels, savedMessages, nextMsg,
                   reads, answered, hist, justRestarted, recordCreation, listings,
                   sock, hookVars, inboxVars>>

\* the request is accepted on the free connection k; poll() calls readChannel
OpenStream(c, k, a) ==
    /\ StreamStatus(c, a) = 200
    /\ conns[c][k].phase = "closed"
    /\ conns' = [conns EXCEPT ![c][k] =
                    [agent |-> a, running |-> TRUE, phase |-> "reading",
                     batch |-> << >>, written |-> {}, openedAt |-> Len(stream[c])]]
    /\ UNCHANGED <<groups, nonStreamVars>>

\* (mutant) a close handler that removes the agent's consumer group
CloseStreamUnsubscribing(c, k) ==
    /\ conns[c][k].running
    /\ conns' = [conns EXCEPT ![c][k].running = FALSE]
    /\ groups' = [groups EXCEPT ![c][AGENT_GROUP(conns[c][k].agent)] = XGroupDestroy(@)]
    /\ UNCHANGED nonStreamVars

\* req.on("close"): running = false; an awaited readChannel or ackMessage
\* goes on
CloseStream(c, k) ==
    /\ conns[c][k].running
    /\ conns' = [conns EXCEPT ![c][k].running = FALSE]
    /\ UNCHANGED <<groups, nonStreamVars>>

\* the group readChannel reads in: XGROUP CREATE ... "$" MKSTREAM .catch(() => {})
readChannelGroup(c) == XGroupCreate(stream[c], groups[c][CONSUMER_GROUP], "$").group

\* readChannel returns messages: XREADGROUP GROUP CONSUMER_GROUP consumerName
\* COUNT 10 BLOCK 5000 STREAMS key ">" found entries after the group's last
\* delivered ID
PollDeliver(c, k) ==
    /\ conns[c][k].phase = "reading"
    /\ redisUp
    /\ LET ids == NewIds(stream[c], readChannelGroup(c), StreamPollCount)
       IN /\ ids # << >>
          /\ groups' = [groups EXCEPT ![c][CONSUMER_GROUP] =
                            Delivered(readChannelGroup(c), ids)]
          /\ conns' = [conns EXCEPT ![c][k].phase = "writing",
                                    ![c][k].batch = ParseEntries(stream[c], ids)]
    /\ UNCHANGED nonStreamVars

\* readChannel returns []: XREADGROUP found nothing for 5000 ms.  The loop
\* calls readChannel again while running, and ends when the connection was
\* closed
PollExit(c, k) ==
    /\ conns[c][k].phase = "reading"
    /\ ~conns[c][k].running
    /\ redisUp => NewIds(stream[c], readChannelGroup(c), StreamPollCount) = << >>
    /\ conns' = [conns EXCEPT ![c][k] = NoConn]
    /\ UNCHANGED <<groups, nonStreamVars>>

\* one turn of the for loop: res.write unless the message is the agent's own
\* (a write to a closed connection is lost), then XACK in CONSUMER_GROUP;
\* after the last message the loop reads again, or ends when the connection
\* was closed
WriteAck(c, k) ==
    /\ conns[c][k].phase = "writing"
    /\ redisUp
    /\ LET cn  == conns[c][k]
           msg == Head(cn.batch)
           out == IF msg.agentId # cn.agent /\ cn.running
                  THEN cn.written \cup {msg.streamId} ELSE cn.written
       IN /\ groups' = [groups EXCEPT ![c][CONSUMER_GROUP] = XAck(@, {msg.streamId})]
          /\ conns' = [conns EXCEPT ![c][k] =
                IF Tail(cn.batch) # << >>
                THEN [cn EXCEPT !.batch = Tail(cn.batch), !.written = out]
                ELSE IF cn.running
                THEN [cn EXCEPT !.batch = << >>, !.written = out, !.phase = "reading"]
                ELSE NoConn]
    /\ UNCHANGED nonStreamVars

(***************************************************************************)
(* SpecStream: agents open and close stream connections on a channel while *)
(* messages are posted.                                                    *)
(***************************************************************************)
InitStream == InitBase /\ recordCreation = FALSE

NextStream ==
    \/ \E c \in Channels, a \in Authors, content \in Contents :
          PostMessage(c, a, content)
    \/ \E c \in Channels, k \in ConnIds, a \in Agents : OpenStream(c, k, a)
    \/ \E c \in Channels, k \in ConnIds : CloseStream(c, k)
    \/ \E c \in Channels, k \in ConnIds : PollDeliver(c, k)
    \/ \E c \in Channels, k \in ConnIds : PollExit(c, k)
    \/ \E c \in Channels, k \in ConnIds : WriteAck(c, k)

SpecStream == InitStream /\ [][NextStream]_vars

(***************************************************************************)
(* The Redis connection.  redis-streams.js makes one client, redis = new   *)
(* Redis(REDIS_URL), and every function of the module sends its commands   *)
(* on it.  The server replies to the commands of a connection in the order *)
(* they were sent, and while it holds the connection in XREADGROUP ...     *)
(* BLOCK ms it takes no further command from it.  A handler is two steps   *)
(* here: it sends its command, and it goes on when the reply has come.     *)
(***************************************************************************)
\* a command on the connection, with what its handler needs to go on: id is
\* the messageId of XACK, text the content of XADD or the ID of XGROUP
\* CREATE, next the command readForAgent sends after its subscribeAgent
Command(op, c, a, id, text, count, block, next) ==
    [op |-> op, c |-> c, a |-> a, id |-> id, text |-> text, count |-> count,
     block |-> block, next |-> next]

allButSock == <<redisUp, stream, groups, channels, savedChannels, savedMessages,
                nextMsg, reads, answered, hist, justRestarted, recordCreation,
                listings, conns, hookVars, inboxVars>>

Send(cmd) ==
    /\ Len(sock) < MaxQueue
    /\ sock' = Append(sock, cmd)
    /\ UNCHANGED allButSock

\* the XADD commands of channel c on the connection
QueuedPosts(c) == Cardinality({i \in 1..Len(sock) : sock[i].op = "XADD" /\ sock[i].c = c})

\* POST /:channelId/message up to await redis.xadd
SendPublish(c, a, content) ==
    /\ PostStatus(c, a) = 201
    /\ nextMsg[c] + QueuedPosts(c) < MaxPosts
    /\ Send(Command("XADD", c, a, 0, content, 0, 0, ""))

\* POST /:channelId/subscribe up to await redis.xgroup("CREATE")
SendSubscribe(c, a, startFrom) ==
    /\ a # NoAgent /\ c \in DOMAIN channels
    /\ Send(Command("XGROUP", c, a, 0, startFrom, 0, 0, ""))

\* POST /:channelId/ack up to await redis.xack
SendAck(c, a, id) ==
    /\ a # NoAgent /\ c \in DOMAIN channels
    /\ Send(Command("XACK", c, a, id, "", 0, 0, ""))

\* GET /:channelId/status/:agentId up to await redis.xinfo
SendStatus(c, a) ==
    /\ StatusStatus(c) = 200
    /\ Send(Command("XINFO", c, a, 0, "", 0, 0, ""))

\* GET /:channelId/read/:agentId up to readForAgent's await subscribeAgent
SendRead(c, a, qcount, qblock) ==
    /\ c \in DOMAIN channels
    /\ Send(Command("XGROUP", c, a, 0, "$", ParseCount(qcount, DefaultReadCount),
                    qblock, "XREADGROUP"))

\* the server holds the connection in this command: XREADGROUP BLOCK ms with
\* nothing after the group's last delivered ID
Blocked(cmd) ==
    /\ cmd.op = "XREADGROUP"
    /\ cmd.block > 0
    /\ NewIds(stream[cmd.c], groups[cmd.c][AGENT_GROUP(cmd.a)], cmd.count) = << >>

ReplyPublish ==
    /\ sock # << >> /\ Head(sock).op = "XADD"
    /\ PostHandled(Head(sock).c, Head(sock).a, Head(sock).text)
    /\ sock' = Tail(sock)

ReplySubscribe ==
    /\ sock # << >> /\ Head(sock).op = "XGROUP" /\ Head(sock).next = ""
    /\ SubscribeHandled(Head(sock).c, Head(sock).a, Head(sock).text)
    /\ sock' = Tail(sock)

\* the subscribeAgent of readForAgent returns; readForAgent sends XREADGROUP
ReplyEnsureGroup ==
    /\ sock # << >> /\ Head(sock).op = "XGROUP" /\ Head(sock).next = "XREADGROUP"
    /\ LET h == Head(sock)
           r == subscribeAgent(h.c, h.a, "$")
       IN /\ IF r.err = "" THEN Subscribed(h.c, h.a, "$", r) ELSE UNCHANGED <<groups, hist>>
          /\ sock' = Append(Tail(sock), [h EXCEPT !.op = "XREADGROUP", !.next = ""])
    /\ justRestarted' = FALSE
    /\ UNCHANGED <<redisUp, stream, localVars, savedMessages, nextMsg, reads, answered,
                   pushVars>>

ReplyAck ==
    /\ sock # << >> /\ Head(sock).op = "XACK"
    /\ AckHandled(Head(sock).c, Head(sock).a, {Head(sock).id})
    /\ sock' = Tail(sock)

ReplyStatus ==
    /\ sock # << >> /\ Head(sock).op = "XINFO"
    /\ getAgentStatus(Head(sock).c, Head(sock).a).pending >= 0
    /\ sock' = Tail(sock)
    /\ UNCHANGED allButSock

\* XREADGROUP replies: with the entries after the group's last delivered ID,
\* or, without BLOCK, with nil when there are none
ReplyRead ==
    /\ sock # << >> /\ Head(sock).op = "XREADGROUP"
    /\ ~Blocked(Head(sock))
    /\ LET h   == Head(sock)
           ids == NewIds(stream[h.c], groups[h.c][AGENT_GROUP(h.a)], h.count)
       IN /\ groups' = [groups EXCEPT ![h.c][AGENT_GROUP(h.a)] = Delivered(@, ids)]
          /\ hist' = [hist EXCEPT ![h.c][h.a].observed = @ \o ParseEntries(stream[h.c], ids)]
    /\ sock' = Tail(sock)
    /\ justRestarted' = FALSE
    /\ UNCHANGED <<redisUp, stream, localVars, savedMessages, nextMsg, reads, answered,
                   pushVars>>

\* XREADGROUP BLOCK ms found nothing for ms milliseconds: the reply is nil
BlockTimeout ==
    /\ sock # << >> /\ Blocked(Head(sock))
    /\ sock' = Tail(sock)
    /\ UNCHANGED allButSock

\* another instance, on its own connection, handles a POST to the channel
OtherInstancePost(c, a, content) ==
    /\ nextMsg[c] + QueuedPosts(c) < MaxPosts
    /\ PostMessage(c, a, content)

(***************************************************************************)
(* SpecConn: the requests of one agent on one instance, each sending its   *)
(* command on the instance's Redis connection.                             *)
(***************************************************************************)
InitConn == InitBase /\ recordCreation = FALSE

NextConn ==
    \/ \E c \in Channels, a \in EdgeAgents, content \in Contents : SendPublish(c, a, content)
    \/ \E c \in Channels, a \in EdgeAgents : SendSubscribe(c, a, "$")
    \/ \E c \in Channels, a \in EdgeAgents, id \in 1..MaxPosts : SendAck(c, a, id)
    \/ \E c \in Channels, a \in EdgeAgents : SendStatus(c, a)
    \/ \E c \in Channels, a \in EdgeAgents, qb \in QueryBlocks : SendRead(c, a, 0, qb)
    \/ ReplyPublish
    \/ ReplySubscribe
    \/ ReplyEnsureGroup
    \/ ReplyAck
    \/ ReplyStatus
    \/ ReplyRead
    \/ BlockTimeout
    \/ \E c \in Channels, a \in EdgeAgents, content \in Contents :
          OtherInstancePost(c, a, content)

SpecConn == InitConn /\ [][NextConn]_vars

(***************************************************************************)
(* SpecHooks: one agent registers, unregisters and registers again while   *)
(* deliveries to it are sent, answered or lost, and the process restarts.  *)
(***************************************************************************)
Registrants == {"agent_1f"}
Urls == {"http://a.example/hook"}
HookEvents == {"mention", "channel_subscribed"}
\* the events of the request body: absent
BodyEvents == {<< >>}
\* const requestedEvents = events || ['mention', 'dm']
RequestedEvents(events) == IF events = << >> THEN DefaultEvents ELSE events

InitHooks == InitBase /\ recordCreation = FALSE

NextHooks ==
    \/ \E a \in Registrants, url \in Urls, events \in BodyEvents :
          RegisterRoute(a, url, RequestedEvents(events))
    \/ \E a \in Registrants : unregister(a)
    \/ \E a \in Registrants, event \in HookEvents : FireWebhook(a, event)
    \/ \E att \in BagToSet(attempts) : DeliverySucceeded(att)
    \/ \E att \in BagToSet(attempts) : DeliveryFailed(att)
    \/ Restart

SpecHooks == InitHooks /\ [][NextHooks]_vars

(***************************************************************************)
(* SpecMention: messages that mention agents or not are posted to a        *)
(* channel that an agent with a webhook joins; the deliveries are answered *)
(* or not.                                                                 *)
(***************************************************************************)
\* POST /:channelId/join
JoinStatus(c, a) ==
    IF a = NoAgent THEN 400
    ELSE IF c \notin DOMAIN channels THEN 404
    ELSE 200

JoinRoute(c, a) ==
    /\ JoinStatus(c, a) = 200
    /\ channels' = [channels EXCEPT ![c].members = AddMember(@, a)]
    \* persistence.saveChannel(channel), if the agent was added
    /\ savedChannels' = IF a \in Range(channels[c].members)
                         THEN savedChannels ELSE channels'
    /\ justRestarted' = (justRestarted /\ channels' = channels)
    /\ UNCHANGED <<redisUp, stream, groups, savedMessages, nextMsg, reads, answered,
                   hist, pushVars, sock>>

MentionContents == {"@agent_1f", "@AGENT_1F", "@agent_1", "@agent_1f, @agent_1f!"}
MentionEvents == {<< >>, <<"mention", "channel_subscribed">>}

InitMention == InitBase /\ recordCreation = FALSE

NextMention ==
    \/ \E a \in Registrants, url \in Urls, events \in MentionEvents :
          RegisterRoute(a, url, RequestedEvents(events))
    \/ \E c \in Channels, a \in Registrants : JoinRoute(c, a)
    \/ \E c \in Channels, a \in HookAgents, content \in MentionContents :
          PostMessage(c, a, content)
    \/ \E att \in BagToSet(attempts) : DeliverySucceeded(att)
    \/ \E att \in BagToSet(attempts) : DeliveryFailed(att)

SpecMention == InitMention /\ [][NextMention]_vars

(***************************************************************************)
(* SpecInbox: notifications are added for one agent that polls, marks,     *)
(* connects and disconnects.                                               *)
(***************************************************************************)
\* the ids of the mark-read requests: the oldest stored notification, or none
OldestId(a) == IF inboxes[a] = << >> THEN UnknownNotif ELSE Head(inboxes[a]).id

InitInbox == InitBase /\ recordCreation = FALSE

NextInbox ==
    \/ \E a \in InboxAgents : addNotification(a)
    \/ \E a \in InboxAgents, ack \in BOOLEAN : GetNotifications(a, ack)
    \/ \E a \in InboxAgents, k \in SseIds : OpenNotificationStream(a, k)
    \/ \E a \in InboxAgents, k \in SseIds : CloseNotificationStream(a, k)
    \/ \E a \in InboxAgents : DeleteNotifications(a)
    \/ \E a \in InboxAgents : \E notifId \in {OldestId(a), UnknownNotif} :
          MarkRead(a, notifId)
    \/ \E a \in InboxAgents : MarkAllRead(a)

SpecInbox == InitInbox /\ [][NextInbox]_vars

(***************************************************************************)
(* SpecPush: notifications are added for an agent that connects, also with *)
(* two connections at a time, disconnects and polls; the pub/sub module is *)
(* there or not, and its initialisation may fail.                          *)
(***************************************************************************)
PushIds == {"s1", "s2"}

\* pubsub.initialize().catch(e => { pubsub = null })
PubsubInitFailed ==
    /\ pubsub
    /\ pubsub' = FALSE
    /\ UNCHANGED <<inboxes, sseClients, stored, inboxHist, published, heartbeats,
                   sseHist, nonInboxVars>>

InitPush ==
    InitState /\ pubsub \in BOOLEAN /\ recordCreation = FALSE /\ listings = NoListings

NextPush ==
    \/ \E a \in InboxAgents : stored < MaxAdded /\ addNotification(a)
    \/ \E a \in InboxAgents, ack \in BOOLEAN : GetNotifications(a, ack)
    \/ \E a \in InboxAgents, k \in PushIds : OpenNotificationStream(a, k)
    \/ \E a \in InboxAgents, k \in PushIds : CloseNotificationStream(a, k)
    \/ \E a \in InboxAgents, k \in PushIds : Heartbeat(a, k)
    \/ PubsubInitFailed

SpecPush == InitPush /\ [][NextPush]_vars

(***************************************************************************)
(* SpecClose: an agent that has its consumer group and pending entries     *)
(* opens and closes a stream connection on the channel, while              *)
(* notifications are added for two agents, one of whom connects and        *)
(* disconnects.                                                            *)
(***************************************************************************)
CloseIds == {"k1"}

InitClose == InitBase /\ recordCreation = FALSE

NextClose ==
    \/ \E c \in Channels, a \in Authors, content \in Contents :
          PostMessage(c, a, content)
    \/ \E c \in Channels, a \in EdgeAgents : ReadRequest(c, a, 0, 0)
    \/ \E r \in reads : ReadDeliver(r)
    \/ \E r \in reads : ReadEmpty(r)
    \/ \E c \in Channels, k \in CloseIds, a \in EdgeAgents : OpenStream(c, k, a)
    \/ \E c \in Channels, k \in CloseIds : CloseStream(c, k)
    \/ \E c \in Channels, k \in CloseIds : PollDeliver(c, k)
    \/ \E c \in Channels, k \in CloseIds : PollExit(c, k)
    \/ \E c \in Channels, k \in CloseIds : WriteAck(c, k)
    \/ \E a \in NotifiedAgents : stored < MaxAdded /\ addNotification(a)
    \/ \E a \in InboxAgents, k \in SseIds : OpenNotificationStream(a, k)
    \/ \E a \in InboxAgents, k \in SseIds : CloseNotificationStream(a, k)

SpecClose == InitClose /\ [][NextClose]_vars

(***************************************************************************)
(* SpecPoll: an agent subscribes, reads, with ?block= and without,         *)
(* acknowledges and unsubscribes while messages are posted; the client of  *)
(* a read may disconnect before the read is answered.                      *)
(***************************************************************************)
InitPoll == InitBase /\ recordCreation = TRUE

NextPoll ==
    \/ \E c \in Channels, a \in Authors, content \in Contents :
          PostMessage(c, a, content)
    \/ \E c \in Channels, a \in EdgeAgents, qb \in QueryBlocks : ReadRequest(c, a, 0, qb)
    \/ \E r \in reads : ClientDisconnects(r)
    \/ \E r \in reads : ReadDeliver(r)
    \/ \E r \in reads : ReadEmpty(r)
    \/ \E r \in reads : ReadTimeout(r)
    \/ \E r \in reads : ReadError(r)
    \/ \E c \in Channels, a \in EdgeAgents, id \in 1..MaxPosts : AckRoute(c, a, {id})
    \/ \E c \in Channels, a \in EdgeAgents, s \in StreamIds : SubscribeRoute(c, a, s)
    \/ \E c \in Channels, a \in EdgeAgents : UnsubscribeRoute(c, a)

SpecPoll == InitPoll /\ [][NextPoll]_vars

(***************************************************************************)
(* SpecPending: one agent subscribes, reads, acknowledges and asks for its *)
(* pending messages, with Redis reachable or not; the requests GET pending *)
(* was answered 200 for are recorded in listings.                          *)
(***************************************************************************)
InitPending ==
    InitState /\ pubsub = FALSE /\ recordCreation = FALSE
              /\ listings = [NoListings EXCEPT !.kept = TRUE]

NextPending ==
    \/ \E c \in Channels, a \in EdgeAgents, content \in Contents :
          PostMessage(c, a, content)
    \/ \E c \in Channels, a \in EdgeAgents, s \in StreamIds : SubscribeRoute(c, a, s)
    \/ \E c \in Channels, a \in EdgeAgents : UnsubscribeRoute(c, a)
    \/ \E c \in Channels, a \in EdgeAgents, qc \in PositiveCounts :
          ReadRequest(c, a, qc, 0)
    \/ \E r \in reads : ReadDeliver(r)
    \/ \E r \in reads : ReadEmpty(r)
    \/ \E r \in reads : ReadError(r)
    \/ \E c \in ChannelIds, a \in EdgeAgents, qc \in QueryCounts : PendingRoute(c, a, qc)
    \/ \E c \in Channels, a \in EdgeAgents, id \in 1..MaxPosts : AckRoute(c, a, {id})
    \/ RedisDown
    \/ RedisUp

SpecPending == InitPending /\ [][NextPending]_vars

(***************************************************************************)
(* SpecReject: the requests of one agent, with and without agentId, for a  *)
(* channel and for a channel that does not exist; a request answered 400   *)
(* or 404 is recorded in listings.                                         *)
(***************************************************************************)
\* the messageId of POST /ack: absent, or an ID
OptionalIds == {{}} \cup {{id} : id \in 1..MaxPosts}

InitReject ==
    InitState /\ pubsub = FALSE /\ recordCreation = FALSE
              /\ listings = [NoListings EXCEPT !.watched = TRUE]

NextReject ==
    \/ \E c \in ChannelIds, a \in EdgeBodyAgents, content \in Contents :
          PostMessage(c, a, content)
    \/ \E c \in ChannelIds, a \in EdgeBodyAgents, s \in StreamIds :
          SubscribeRoute(c, a, s)
    \/ \E c \in ChannelIds, a \in EdgeBodyAgents : UnsubscribeRoute(c, a)
    \/ \E c \in ChannelIds, a \in EdgeAgents, qc \in PositiveCounts :
          ReadRequest(c, a, qc, 0)
    \/ \E r \in reads : ReadDeliver(r)
    \/ \E r \in reads : ReadEmpty(r)
    \/ \E r \in reads : ReadError(r)
    \/ \E c \in ChannelIds, a \in EdgeAgents, qc \in PositiveCounts : PendingRoute(c, a, qc)
    \/ \E c \in ChannelIds, a \in EdgeBodyAgents, ids \in OptionalIds : AckRoute(c, a, ids)

SpecReject == InitReject /\ [][NextReject]_vars

(***************************************************************************)
(* SpecPut: webhooks are registered with PUT /agents/:agentId/webhook, for *)
(* an agent that exists and one that does not, with and without a secret;  *)
(* deliveries are sent and answered.                                       *)
(***************************************************************************)
PutAgents == agents \cup {"agent_1"}
PutUrls == {"http://a.example/hook", Absent}
PutSecrets == {Absent, "s3cret"}
PutEvents == {<<"mention">>, <<"channel_subscribed">>}

InitPut == InitBase /\ recordCreation = FALSE

NextPut ==
    \/ \E a \in PutAgents, url \in PutUrls, secret \in PutSecrets, events \in PutEvents :
          PutWebhook(a, url, secret, events)
    \/ \E a \in agents : unregister(a)
    \/ \E a \in agents, event \in {"mention", "channel_subscribed"} : FireWebhook(a, event)
    \/ \E att \in BagToSet(attempts) : DeliverySucceeded(att)
    \/ \E att \in BagToSet(attempts) : DeliveryFailed(att)

SpecPut == InitPut /\ [][NextPut]_vars

(***************************************************************************)
(* SpecMember: an agent registers a webhook for channel_subscribed, with   *)
(* and without mention, and joins a channel; it and another agent post     *)
(* messages that mention it or no one.                                     *)
(***************************************************************************)
MemberEvents == {<<"channel_subscribed">>, <<"mention", "channel_subscribed">>}
MemberContents == {"hi", "@agent_1f"}

InitMember == InitBase /\ recordCreation = FALSE

NextMember ==
    \/ \E a \in Registrants, url \in Urls, events \in MemberEvents :
          RegisterRoute(a, url, RequestedEvents(events))
    \/ \E c \in Channels, a \in Registrants : JoinRoute(c, a)
    \/ \E c \in Channels, a \in HookAgents, content \in MemberContents :
          PostMessage(c, a, content)
    \/ \E att \in BagToSet(attempts) : DeliverySucceeded(att)
    \/ \E att \in BagToSet(attempts) : DeliveryFailed(att)

SpecMember == InitMember /\ [][NextMember]_vars

(***************************************************************************)
(* Properties of Spec.                                                     *)
(***************************************************************************)
\* the place of the message with this id in the order of the POST requests
PublishIndex(c, id) ==
    CHOOSE i \in 1..Len(savedMessages[c]) : savedMessages[c][i].id = id

\* the place of the entry with this stream ID in what a group observed
ObservedAt(c, a, streamId) ==
    CHOOSE i \in 1..Len(hist[c][a].observed) :
        hist[c][a].observed[i].streamId = streamId

ObservedIds(c, a) ==
    {hist[c][a].observed[i].streamId : i \in 1..Len(hist[c][a].observed)}

\* what a group observed and did not acknowledge, in the order observed
Unacked(c, a) ==
    SelectSeq(hist[c][a].observed, LAMBDA m : m.streamId \notin hist[c][a].acked)

\* C1: in every channel, what each consumer group observed through
\* readForAgent is in the order of the entry IDs, which is the order in which
\* the messages were published; so any two groups observed the entries they
\* both observed in the same relative order.
C1_SameOrder ==
    \A c \in Channels :
        /\ \A a \in Agents :
              LET o == hist[c][a].observed
              IN \A i, j \in 1..Len(o) : i < j =>
                    /\ o[i].streamId < o[j].streamId
                    /\ PublishIndex(c, o[i].id) < PublishIndex(c, o[j].id)
        /\ \A a, b \in Agents :
              \A x, y \in ObservedIds(c, a) \cap ObservedIds(c, b) :
                  (ObservedAt(c, a, x) < ObservedAt(c, a, y))
                      <=> (ObservedAt(c, b, x) < ObservedAt(c, b, y))

\* two groups have read the same channel of at least two entries to its end
C1_Witness ==
    \E c \in Channels :
        /\ Len(stream[c]) >= 2
        /\ \A a \in Agents :
              /\ groups[c][AGENT_GROUP(a)].exists
              /\ groups[c][AGENT_GROUP(a)].last_id = Len(stream[c])
              /\ Len(hist[c][a].observed) >= 2

\* C2: an entry leaves the pending entries list of an agent's group only by
\* an acknowledge of that agent that names it, or by the agent's
\* unsubscribe, which destroys the group: no other step removes it.
C2_PendingUntilAcked ==
    [][\A c \in Channels, a \in Agents :
          \A id \in groups[c][AGENT_GROUP(a)].pel :
              id \notin groups'[c][AGENT_GROUP(a)].pel =>
                  \/ \E ids \in SUBSET (1..MaxPosts) : id \in ids /\ AckRoute(c, a, ids)
                  \/ UnsubscribeRoute(c, a)]_vars

\* an entry is pending for one agent after the other agent acknowledged the
\* same entry, a later message was published and the process was restarted
C2_Witness ==
    \E c \in Channels, a, b \in Agents, id \in 1..MaxPosts :
        /\ a # b
        /\ id \in groups[c][AGENT_GROUP(a)].pel
        /\ id \in hist[c][b].acked
        /\ Len(stream[c]) > id
        /\ justRestarted

\* C3: after a restart of the process, GET pending answers with exactly the
\* messages the group was given and did not acknowledge, in the order given,
\* whenever they are within the count limit of the request.
C3_PendingRecovered ==
    justRestarted =>
        \A c \in Channels, a \in Agents, qc \in QueryCounts :
            Len(Unacked(c, a)) <= ParseCount(qc, DefaultPendingCount) =>
                /\ PendingStatus(c, a) = 200
                /\ PendingBody(c, a, qc).messages = Unacked(c, a)
                /\ PendingBody(c, a, qc).count = Len(Unacked(c, a))

\* the process was restarted while a group held two entries it was given and
\* acknowledged none of
C3_Witness ==
    /\ justRestarted
    /\ \E c \in Channels, a \in Agents :
          /\ Len(hist[c][a].observed) >= 2
          /\ hist[c][a].acked = {}
          /\ PendingBody(c, a, 0).messages = hist[c][a].observed

\* C4: acknowledging an entry ID that is not pending (acknowledged before,
\* or never delivered) is answered 200 with acknowledged 0 and leaves the
\* group as it is; once every entry a group was given is acknowledged, its
\* pending count is 0.
C4_AckIdempotent ==
    \A c \in Channels, a \in Agents :
        /\ \A id \in 1..MaxPosts :
              id \notin groups[c][AGENT_GROUP(a)].pel =>
                  /\ AckStatus(c, a, {id}) = 200
                  /\ Acknowledged(c, a, {id}) = 0
                  /\ AckReply(c, a, {id}).group = groups[c][AGENT_GROUP(a)]
        /\ (groups[c][AGENT_GROUP(a)].exists /\ Unacked(c, a) = << >>) =>
              getAgentStatus(c, a).pending = 0

\* a group was given one entry and acknowledged it: the entry is no longer
\* pending, and a second acknowledge of it is answered 200
C4_Witness ==
    \E c \in Channels, a \in Agents, id \in 1..MaxPosts :
        /\ ObservedIds(c, a) = {id}
        /\ hist[c][a].acked = {id}
        /\ getAgentStatus(c, a).subscribed
        /\ getAgentStatus(c, a).pending = 0
        /\ AckStatus(c, a, {id}) = 200

\* a step of a request of agent a on channel c: subscribe, unsubscribe, a
\* read or its answer, pending, or an acknowledge
ActsOn(c, a) ==
    \/ \E s \in StreamIds : SubscribeRoute(c, a, s)
    \/ UnsubscribeRoute(c, a)
    \/ \E qc \in PositiveCounts : ReadRequest(c, a, qc, 0)
    \/ \E r \in reads :
          r.c = c /\ r.a = a /\ (ReadDeliver(r) \/ ReadEmpty(r) \/ ReadError(r))
    \/ \E qc \in QueryCounts : PendingRoute(c, a, qc)
    \/ \E ids \in SUBSET (1..MaxPosts) : ids # {} /\ AckRoute(c, a, ids)

\* C27: a subscribe, unsubscribe, read, pending or acknowledge of one agent
\* leaves the consumer group of every other agent on the channel, its last
\* delivered ID and its pending entries, as it is (written from the group's
\* side: a step that changes the group of b is no request of another agent).
C27_OtherGroupsUntouched ==
    [][\A c \in Channels, a, b \in Agents :
          (a # b /\ groups'[c][AGENT_GROUP(b)] # groups[c][AGENT_GROUP(b)])
              => ~ActsOn(c, a)]_vars

\* one agent has acknowledged entries while the group of the other holds
\* everything it was given pending, and the two groups differ
C27_Witness ==
    \E c \in Channels, a, b \in Agents :
        /\ a # b
        /\ groups[c][AGENT_GROUP(a)].exists /\ groups[c][AGENT_GROUP(b)].exists
        /\ hist[c][a].acked # {}
        /\ ObservedIds(c, b) # {}
        /\ groups[c][AGENT_GROUP(b)].pel = ObservedIds(c, b)
        /\ groups[c][AGENT_GROUP(a)] # groups[c][AGENT_GROUP(b)]

\* C28: acknowledges of different entries by one consumer group commute.
\* Whenever POST /ack of the IDs A has been applied, an acknowledge of other
\* IDs B applied after it leaves the group as A applied after B would, and
\* the pending entries left are those of one acknowledge of A and B together
\* (an acknowledge that removes nothing changes no variable and is no step).
C28_AcksCommute ==
    [][\A c \in Channels, a \in Agents :
          groups'[c][AGENT_GROUP(a)] # groups[c][AGENT_GROUP(a)] =>
              \A A \in SUBSET (1..MaxPosts) \ {{}} :
                  AckRoute(c, a, A) =>
                      \A B \in SUBSET ((1..MaxPosts) \ A) \ {{}} :
                          /\ AckReply(c, a, B)'.group
                                 = XAck(AckReply(c, a, B).group, A)
                          /\ AckReply(c, a, B)'.group.pel
                                 = groups[c][AGENT_GROUP(a)].pel \ (A \cup B)]_vars

\* a group was given two entries and has acknowledged both, none is pending
C28_Witness ==
    \E c \in Channels, a \in Agents :
        /\ groups[c][AGENT_GROUP(a)].exists
        /\ groups[c][AGENT_GROUP(a)].last_id >= 2
        /\ groups[c][AGENT_GROUP(a)].pel = {}
        /\ Cardinality(hist[c][a].acked) >= 2

(***************************************************************************)
(* Properties of SpecEdge.                                                 *)
(***************************************************************************)
\* the message ids of the entries of the channel's stream
AppendedIds(c) == {FieldOf(stream[c][i], "id") : i \in 1..Len(stream[c])}

\* C5: every message POST /:channelId/message answered 201 for is an entry
\* of the channel's stream (when the stream cannot be reached the caller
\* gets an error, not a 201).
C5_PublishFailsLoudly ==
    \A c \in Channels : answered[c] \subseteq AppendedIds(c)

C7_NewReceivesOnlyLater ==
    /\ \A c \in Channels, a \in EdgeAgents :
          hist[c][a].startFrom = "$" =>
              \A i \in 1..Len(hist[c][a].observed) :
                  hist[c][a].observed[i].streamId > hist[c][a].lenAtCreate
    /\ \A r \in reads :
          (/\ redisUp
           /\ groups[r.c][AGENT_GROUP(r.a)].exists
           /\ hist[r.c][r.a].startFrom = "$") =>
              \A i \in 1..Len(ReadMessages(r)) :
                  ReadMessages(r)[i].streamId > hist[r.c][r.a].lenAtCreate

\* a group created with "$" when the stream held an entry has been given a
\* later entry
C7_Witness ==
    \E c \in Channels, a \in EdgeAgents :
        /\ hist[c][a].startFrom = "$"
        /\ hist[c][a].lenAtCreate >= 1
        /\ hist[c][a].observed # << >>
        /\ Len(stream[c]) > hist[c][a].lenAtCreate

\* C8: a read that delivers gives the group at most count entries (none for
\* a count below 1).
C8_AtMostMaxCount ==
    [][\A r \in reads :
          ReadDeliver(r) =>
              Len(hist'[r.c][r.a].observed) - Len(hist[r.c][r.a].observed)
                  <= (IF r.count < 0 THEN 0 ELSE r.count)]_vars

C26_UnsubscribeDestroys ==
    [][\A c \in Channels, a \in EdgeAgents :
          /\ (UnsubscribeStatus(c, a) = 200 /\ UnsubscribeRoute(c, a))
                => /\ ~groups'[c][AGENT_GROUP(a)].exists
                   /\ ~getAgentStatus(c, a)'.subscribed
          /\ (~groups[c][AGENT_GROUP(a)].exists /\ groups'[c][AGENT_GROUP(a)].exists)
                => /\ groups'[c][AGENT_GROUP(a)].pel = {}
                   /\ PendingBody(c, a, 0)'.messages = << >>]_vars

(***************************************************************************)
(* Property of SpecStream.                                                 *)
(***************************************************************************)
\* the stream IDs of the messages a connection holds in its for loop
BatchIds(c, k) == {conns[c][k].batch[i].streamId : i \in 1..Len(conns[c][k].batch)}

\* C9: every entry appended while a connection of an agent other than its
\* author is open is written to that connection, or is still on its way to
\* it: in the connection's for loop, or not yet delivered to any consumer of
\* the group.
C9_EveryStreamGetsEveryMessage ==
    \A c \in Channels, k \in ConnIds :
        conns[c][k].running =>
            \A id \in (conns[c][k].openedAt + 1)..Len(stream[c]) :
                FieldOf(stream[c][id], "agentId") # conns[c][k].agent =>
                    \/ id \in conns[c][k].written
                    \/ id \in BatchIds(c, k)
                    \/ id > groups[c][CONSUMER_GROUP].last_id

\* C32: the poller of a connection that was closed takes nothing from the
\* channel's shared group: from the close on, no step of it has XREADGROUP
\* give it entries or acknowledges an entry.
C32_ClosedPollerTakesNothing ==
    [][\A c \in Channels, k \in ConnIds :
          (~conns[c][k].running /\ conns[c][k].phase # "closed")
              => ~(PollDeliver(c, k) \/ WriteAck(c, k))]_vars

(***************************************************************************)
(* Property of SpecConn.                                                   *)
(***************************************************************************)
\* C10: the command of a publish, subscribe, acknowledge or status request
\* never stands on the connection behind a read the server is blocking in:
\* it is replied to without waiting for that read to return or time out.
C10_NothingWaitsForARead ==
    \A i \in 2..Len(sock) :
        (sock[i].op \in {"XADD", "XGROUP", "XACK", "XINFO"} /\ sock[i].next = "") =>
            ~Blocked(Head(sock))

(***************************************************************************)
(* Properties of SpecHooks.                                                *)
(***************************************************************************)
\* the row of agent a says enabled
Enabled(a) == agent_webhooks[a] # NoRow /\ agent_webhooks[a].enabled = 1

\* the row of agent a says disabled
Disabled(a) == agent_webhooks[a] # NoRow /\ agent_webhooks[a].enabled = 0

\* C11: once five deliveries sent under one registration have failed in a
\* row, with no successful delivery in between, the registration is
\* disabled: its row has enabled = 0 and the registry has no entry for it.
C11_DisabledAfterFive ==
    \A a \in HookAgents :
        (agent_webhooks[a] # NoRow /\ hookHist[a].own >= DisableAfter)
            => (Disabled(a) /\ webhooks[a] = NoHook)

\* the fifth failure in a row of one registration has been recorded
C11_Witness ==
    \E a \in HookAgents :
        /\ hookHist[a].own = DisableAfter
        /\ hookHist[a].all = DisableAfter
        /\ Disabled(a)
        /\ agent_webhooks[a].failure_count = DisableAfter
        /\ webhooks[a] = NoHook

\* C12: a sixth delivery is never sent: of the deliveries sent under one
\* registration, at most five fail between two successes, also when
\* deliveries are sent before earlier ones were answered.
C12_NoSixthAttempt ==
    \A a \in HookAgents : hookHist[a].own <= DisableAfter

\* a step that registers agent a: a secret is generated
Registers(a) ==
    /\ webhooks'[a] # NoHook
    /\ webhooks'[a].secret \notin SecretsHeld

\* C13: register for an agent whose row is disabled leaves the row enabled
\* with failure_count 0 and an entry in the registry, and fireWebhook then
\* sends a delivery for every event of the registration.
C13_ReRegisterEnables ==
    [][\A a \in HookAgents :
          (Disabled(a) /\ Registers(a))
              => /\ Enabled(a)'
                 /\ agent_webhooks'[a].failure_count = 0
                 /\ \A event \in Range(webhooks'[a].events) :
                       fireWebhook(a, event, NoData)' # {}]_vars

\* a delivery is in flight that was sent under a registration that replaced
\* a disabled one
C13_Witness ==
    \E a \in HookAgents :
        /\ hookHist[a].reenabled
        /\ \E att \in BagToSet(attempts) : att.agent = a /\ att.current

\* C14: a disabled row becomes enabled, and its agent gets an entry in the
\* registry, by register only: not by the answer to a delivery, however
\* late, and not by a restart.
C14_OnlyRegisterEnables ==
    [][\A a \in HookAgents :
          (Disabled(a) /\ (Enabled(a)' \/ webhooks'[a] # NoHook)) => Registers(a)]_vars

\* a delivery that was in flight when the row was disabled has succeeded
C14_Witness ==
    \E a \in HookAgents :
        /\ Disabled(a)
        /\ agent_webhooks[a].failure_count = 0
        /\ agent_webhooks[a].last_success = Now
        /\ webhooks[a] = NoHook

\* a step in which a delivery to agent a is answered with success
Succeeds(a) ==
    /\ BagCardinality(attempts') = BagCardinality(attempts) - 1
    /\ \E att \in BagToSet(attempts) :
          att.agent = a /\ CopiesIn(att, attempts') < CopiesIn(att, attempts)
    /\ hookHist'[a].all = 0
    /\ ~justRestarted'

\* C15: a successful delivery sets failure_count to 0 and leaves enabled
\* and the registry as they are; and a row is disabled only when five
\* deliveries have failed since the last success.
C15_SuccessResets ==
    [][\A a \in HookAgents :
          /\ (Succeeds(a) /\ agent_webhooks[a] # NoRow)
                => /\ agent_webhooks'[a].failure_count = 0
                   /\ agent_webhooks'[a].enabled = agent_webhooks[a].enabled
                   /\ webhooks'[a] = webhooks[a]
          /\ (Enabled(a) /\ Disabled(a)')
                => hookHist'[a].all >= DisableAfter]_vars

\* after failures a delivery has succeeded for a registration that was made
\* once: its count is 0 again and it is enabled
C15_Witness ==
    \E a \in HookAgents :
        /\ Enabled(a)
        /\ webhooks[a] # NoHook
        /\ webhooks[a].secret = agent_webhooks[a].secret
        /\ agent_webhooks[a].last_failure = Now
        /\ agent_webhooks[a].last_success = Now
        /\ agent_webhooks[a].failure_count = 0

\* C16: a call of fireWebhook with an event that is not among the events of
\* the registration sends no delivery and leaves the row (failure_count,
\* last_success, last_failure, enabled) and the registry as they are.
C16_UnsubscribedEventIgnored ==
    [][\A a \in HookAgents :
          (~hookHist[a].skipped /\ hookHist'[a].skipped)
              => UNCHANGED <<attempts, agent_webhooks, webhooks>>]_vars

\* fireWebhook was called for a registration with an event it does not have
C16_Witness ==
    \E a \in HookAgents :
        /\ hookHist[a].skipped
        /\ webhooks[a] # NoHook
        /\ "channel_subscribed" \notin Range(webhooks[a].events)

\* C33: every delivery sent under an agent's registration is signed with
\* the secret that register returned for that registration, also after a
\* restart of the process.
C33_SignedWithReturnedSecret ==
    \A att \in BagToSet(attempts) :
        att.current => att.signature.key = hookHist[att.agent].secret

\* C38: the failure counter of a registration counts only the failures of
\* deliveries sent under that registration: a delivery sent under an earlier
\* registration of the agent that fails after the re-registration adds
\* nothing to it, so such failures never disable the new registration.
C38_StaleFailuresNotCounted ==
    \A a \in HookAgents :
        agent_webhooks[a] # NoRow
            => agent_webhooks[a].failure_count <= hookHist[a].own

\* C37: the registry in memory holds an entry for an agent exactly when the
\* table holds a row for the agent with enabled = 1, whatever registers,
\* unregisters, answers to deliveries and restarts have happened.
C37_RegistryMatchesRows ==
    \A a \in HookAgents :
        (webhooks[a] # NoHook)
            <=> (agent_webhooks[a] # NoRow /\ agent_webhooks[a].enabled = 1)

\* the process was restarted with a row that five failures had disabled:
\* no entry was loaded for it
C37_Witness ==
    \E a \in HookAgents :
        /\ justRestarted
        /\ agent_webhooks[a] # NoRow
        /\ agent_webhooks[a].enabled = 0
        /\ agent_webhooks[a].failure_count >= DisableAfter
        /\ webhooks[a] = NoHook

(***************************************************************************)
(* Properties of SpecMention.                                              *)
(***************************************************************************)
\* the content holds "@" and the id of agent a, and no further digit of an
\* id behind it
HasMentionTag(content, a) ==
    LET chars == Characters[content]
        tag == <<"@">> \o Characters[a]
    IN \E i \in 1..Len(chars) :
          /\ i + Len(tag) - 1 <= Len(chars)
          /\ SubSeq(chars, i, i + Len(tag) - 1) = tag
          /\ (i + Len(tag) <= Len(chars)) => chars[i + Len(tag)] \notin HexDigits

\* a step in which channel c takes a message
Posts(c) == nextMsg'[c] = nextMsg[c] + 1

\* the message of that step
Posted(c) == savedMessages'[c][Len(savedMessages'[c])]

\* the deliveries sent in a step
Sent == attempts' (-) attempts

C18_ReplyDoesNotWait ==
    [][\A c \in Channels :
          /\ (/\ Posts(c)
              /\ \E a \in HookAgents :
                    /\ HasMentionTag(Posted(c).content, a)
                    /\ Posted(c).agentId # a
                    /\ Enabled(a)
                    /\ "mention" \in Range(agent_webhooks[a].events))
                => /\ Posted(c).id \in answered'[c]
                   /\ FieldOf(stream'[c][Len(stream'[c])], "id") = Posted(c).id
                   /\ \E att \in BagToSet(attempts') :
                         att.data.message.id = Posted(c).id
          /\ (~Posts(c) /\ BagCardinality(attempts') < BagCardinality(attempts))
                => UNCHANGED <<stream, savedMessages, answered, nextMsg>>]_vars

\* a message is answered with 201 and in the stream while its delivery
\* awaits its answer
C18_Witness ==
    \E c \in Channels : \E att \in BagToSet(attempts) :
        /\ att.data.message.id \in answered[c]
        /\ \E i \in 1..Len(stream[c]) :
              FieldOf(stream[c][i], "id") = att.data.message.id

(***************************************************************************)
(* Properties of SpecInbox.                                                *)
(***************************************************************************)
\* C19: whatever notifications were added, read with or without ack, marked
\* read, deleted, and whatever connections were opened and closed, no inbox
\* holds more than 50 notifications.
C19_InboxAtMostCap ==
    \A a \in InboxAgents : Len(inboxes[a]) <= MaxInbox

\* an inbox is full after more notifications were stored in it than it holds
C19_Witness ==
    \E a \in InboxAgents :
        /\ Len(inboxes[a]) = MaxInbox
        /\ inboxHist[a].sinceEmptied > MaxInbox

\* C20: when more than 50 notifications were stored for an agent since its
\* inbox was last emptied (by a read with ack, a delete or a connection),
\* the inbox holds the 50 stored last, oldest first: each notification
\* stored beyond 50 took out the single oldest.  (The ids name the order of
\* storing and SpecInbox has one agent.)
C20_FiftyMostRecent ==
    \A a \in InboxAgents :
        inboxHist[a].sinceEmptied > MaxInbox
            => /\ Len(inboxes[a]) = MaxInbox
               /\ \A i \in 1..MaxInbox : inboxes[a][i].id = stored - MaxInbox + i

\* two notifications were stored beyond the 50 and took out the two oldest
C20_Witness ==
    \E a \in InboxAgents :
        /\ inboxHist[a].sinceEmptied = MaxInbox + 2
        /\ sseClients[a] = {}
        /\ Head(inboxes[a]).id = stored - MaxInbox + 1
        /\ inboxes[a][MaxInbox].id = stored

(***************************************************************************)
(* Properties of SpecPush.                                                 *)
(***************************************************************************)
\* a step in which addNotification is called for agent a, who has no
\* connection
AddsUnconnected(a) ==
    /\ sseClients[a] = {}
    /\ \/ published'[a] = published[a] + 1
       \/ stored' = stored + 1 /\ inboxes'[a] # inboxes[a]

\* C21: a notification added for an agent without a connection is stored in
\* the agent's inbox, at its end, and GET /:agentId then returns it, with the
\* pub/sub module and without.
C21_StoredWhenNoConnection ==
    [][\A a \in NotifiedAgents :
          AddsUnconnected(a)
              => /\ stored' = stored + 1
                 /\ GetBody(a)' # << >>
                 /\ GetBody(a)'[Len(GetBody(a)')].id = stored']_vars

\* C24: a connection that was closed has no interval set and no entry in
\* sseClients, nothing is ever written to a closed connection, and
\* isConnected is true of an agent exactly when one of its connections is
\* open.
C24_ClosedWithTimerAndEntry ==
    \A a \in NotifiedAgents :
        /\ heartbeats[a] \subseteq sseHist[a].open
        /\ sseClients[a] \subseteq sseHist[a].open
        /\ ~sseHist[a].deadWrite
        /\ isConnected(a) <=> sseHist[a].open # {}

\* one of two connections of an agent was closed, the other is open and has
\* its interval
C24_Witness ==
    \E a \in NotifiedAgents :
        /\ sseHist[a].closed = {"s1"}
        /\ sseHist[a].open = {"s2"}
        /\ heartbeats[a] = {"s2"}
        /\ isConnected(a)

\* C30: GET /:agentId answers with every notification stored since the
\* inbox was last emptied (the 50 stored last when there were more), in the
\* order stored; with ?ack=true the inbox is empty after it, without it the
\* inbox is as it was.
C30_DrainReturnsAndClears ==
    [][\A a \in InboxAgents :
          /\ Len(GetBody(a)) = Min(inboxHist[a].sinceEmptied, MaxInbox)
          /\ \A i \in 1..Len(GetBody(a)) :
                GetBody(a)[i].id = stored - Len(GetBody(a)) + i
          /\ GetNotifications(a, TRUE) => inboxes'[a] = << >>
          /\ GetNotifications(a, FALSE) => inboxes'[a] = inboxes[a]]_vars

\* a read with ?ack=true has emptied the inbox of an agent that never had a
\* connection and for whom two notifications were stored
C30_Witness ==
    \E a \in InboxAgents :
        /\ inboxes[a] = << >>
        /\ inboxHist[a].sinceEmptied = 0
        /\ stored >= 2
        /\ sseHist[a] = NoSseHist

\* C35: when a notification stream is opened, the handler writes the
\* stored notifications of the agent to the new connection, all that the
\* inbox holds and in the order they were stored, and the inbox is empty
\* after the same step: a read that follows is answered with none of them
\* and a connection opened next is written none of them.
C35_OpenFlushesOnce ==
    [][\A a \in InboxAgents, k \in PushIds :
          OpenNotificationStream(a, k) =>
              /\ Len(PendingWrites(a)) = Min(inboxHist[a].sinceEmptied, MaxInbox)
              /\ \A i, j \in 1..Len(PendingWrites(a)) :
                    i < j => PendingWrites(a)[i].id < PendingWrites(a)[j].id
              /\ inboxes'[a] = << >>
              /\ GetBody(a)' = << >>
              /\ PendingWrites(a)' = << >>]_vars

\* a connection was opened while the inbox held two notifications, it is
\* open, and the inbox is empty
C35_Witness ==
    \E a \in InboxAgents :
        /\ sseHist[a].flushed
        /\ sseClients[a] # {}
        /\ inboxes[a] = << >>
        /\ stored >= 2

\* C36: where there is no pub/sub, the inbox of an agent that has a
\* registered connection is empty.
C36_ConnectedInboxEmpty ==
    \A a \in InboxAgents :
        (~pubsub /\ isConnected(a)) => inboxes[a] = << >>

\* without pub/sub, an agent for which a notification was stored is
\* connected, and no connection of it was closed
C36_Witness ==
    \E a \in InboxAgents :
        /\ ~pubsub
        /\ isConnected(a)
        /\ stored >= 1
        /\ sseHist[a].closed = {}

(***************************************************************************)
(* Property of SpecClose.                                                  *)
(***************************************************************************)
\* a step in which a connection of GET /:channelId/stream is closed
ClosesStream ==
    \E c \in Channels, k \in ConnIds : conns[c][k].running /\ ~conns'[c][k].running

\* a step in which a connection of GET /:agentId/stream is closed
ClosesNotificationStream ==
    \E a \in NotifiedAgents :
        sseHist'[a].open # sseHist[a].open /\ sseHist'[a].open \subseteq sseHist[a].open

\* the consumer groups of the agents
AgentGroups == [c \in Channels |-> [a \in Agents |-> groups[c][AGENT_GROUP(a)]]]

\* C22: the step in which a connection is closed, of a channel stream or of
\* a notification stream, leaves the consumer group of every agent (its last
\* delivered ID and its pending entries) and every inbox as they are.
C22_CloseKeepsDeliveryState ==
    [][(ClosesStream \/ ClosesNotificationStream)
          => (AgentGroups' = AgentGroups /\ inboxes' = inboxes)]_vars

\* a channel stream was closed and its loop has not ended, and a
\* notification connection of one agent was closed, while a consumer group
\* holds a pending entry and the inbox of another agent a notification
C22_Witness ==
    \E c \in Channels, k \in ConnIds, a \in Agents, m, n \in NotifiedAgents :
        /\ ~conns[c][k].running
        /\ conns[c][k].phase # "closed"
        /\ conns[c][k].agent = a
        /\ groups[c][AGENT_GROUP(a)].pel # {}
        /\ m # n
        /\ sseHist[m].closed # {}
        /\ inboxes[n] # << >>

(***************************************************************************)
(* Property of SpecPoll.                                                   *)
(***************************************************************************)
\* C23: a blocking read whose client has disconnected is given no entries:
\* from the disconnect on it puts nothing into the pending entries list of
\* the agent's group.
C23_DisconnectCancelsRead ==
    [][\A r \in reads : (r.block > 0 /\ r.gone) => ~ReadDeliver(r)]_vars

(***************************************************************************)
(* Property of SpecPending.                                                *)
(***************************************************************************)
\* the stream IDs of messages, in their order
StreamIdsOf(messages) == [i \in 1..Len(messages) |-> messages[i].streamId]

\* C29: GET pending answers with the entries of the group's pending entries
\* list, oldest first, as many as the count of the request allows, and it
\* changes nothing: the streams and the groups (last delivered ID and pending
\* entries) are after the request what they were before it, so a read after
\* it is given the entries it would have been given without it.
C29_PendingChangesNothing ==
    [][\A c \in Channels, a \in EdgeAgents, qc \in QueryCounts :
          PendingRoute(c, a, qc) =>
              LET g == groups[c][AGENT_GROUP(a)]
                  listedIds == SortedSeq(g.pel)
              IN /\ groups' = groups
                 /\ stream' = stream
                 /\ \A count \in {1, DefaultReadCount} :
                       NewIds(stream'[c], groups'[c][AGENT_GROUP(a)], count)
                           = NewIds(stream[c], g, count)
                 /\ (redisUp /\ g.exists /\ qc \in PositiveCounts) =>
                       LET n == Min(ParseCount(qc, DefaultPendingCount), Len(listedIds))
                       IN /\ StreamIdsOf(PendingBody(c, a, qc).messages)
                                = SubSeq(listedIds, 1, n)
                          /\ PendingBody(c, a, qc).count = n
                          /\ PendingBody(c, a, qc)' = PendingBody(c, a, qc)]_vars

\* GET pending was answered for a group that has acknowledged an entry and
\* holds another pending, which the answer lists
C29_Witness ==
    \E c \in Channels, a \in EdgeAgents :
        /\ <<c, a>> \in listings.of
        /\ redisUp
        /\ hist[c][a].acked # {}
        /\ groups[c][AGENT_GROUP(a)].pel # {}
        /\ StreamIdsOf(PendingBody(c, a, 0).messages)
               = SortedSeq(groups[c][AGENT_GROUP(a)].pel)

(***************************************************************************)
(* Property of SpecReject.                                                 *)
(***************************************************************************)
\* the step leaves the streams, the groups, the channels with their members
\* (in memory and saved), the saved messages, the reads that wait and the
\* webhook deliveries as they are
Untouched ==
    /\ stream' = stream
    /\ groups' = groups
    /\ channels' = channels
    /\ savedChannels' = savedChannels
    /\ savedMessages' = savedMessages
    /\ reads' = reads
    /\ attempts' = attempts

\* C31: a request to the message, subscribe, unsubscribe, read, pending or
\* ack route without agentId (or, for ack, without messageId) or for a
\* channel that does not exist is answered 400 or 404 and has no effect:
\* no entry is appended, no group is created, destroyed or changed, and no
\* member is added or removed.
C31_RejectedChangesNothing ==
    [][\A c \in ChannelIds, a \in EdgeBodyAgents :
          /\ (a = NoAgent \/ c = UnknownChannel) =>
                /\ (\E content \in Contents : PostMessage(c, a, content))
                      => (PostStatus(c, a) \in {400, 404} /\ Untouched)
                /\ \A s \in StreamIds :
                      SubscribeRoute(c, a, s)
                          => (SubscribeStatus(c, a, s) \in {400, 404} /\ Untouched)
                /\ UnsubscribeRoute(c, a)
                      => (UnsubscribeStatus(c, a) \in {400, 404} /\ Untouched)
                /\ \A ids \in OptionalIds :
                      AckRoute(c, a, ids)
                          => (AckStatus(c, a, ids) \in {400, 404} /\ Untouched)
          /\ AckRoute(c, a, {}) => (AckStatus(c, a, {}) = 400 /\ Untouched)
          /\ (c = UnknownChannel /\ a # NoAgent) =>
                /\ (\E qc \in PositiveCounts : ReadRequest(c, a, qc, 0))
                      => (ReadStatus(c) = 404 /\ Untouched)
                /\ (\E qc \in PositiveCounts : PendingRoute(c, a, qc))
                      => (PendingStatus(c, a) = 404 /\ Untouched)]_vars

\* a request was answered 400 or 404 while the channel's stream held an
\* entry, the agent was a member and its group held a pending entry
C31_Witness ==
    \E c \in Channels, a \in EdgeAgents :
        /\ listings.rejected
        /\ stream[c] # << >>
        /\ a \in Range(channels[c].members)
        /\ groups[c][AGENT_GROUP(a)].exists
        /\ groups[c][AGENT_GROUP(a)].pel # {}

(***************************************************************************)
(* Property of SpecPut.                                                    *)
(***************************************************************************)
\* C34: after PUT /agents/:agentId/webhook with events E for an agent that
\* exists, the events of the agent's registration are E, and fireWebhook
\* sends a delivery for an event exactly when it is one of E.
C34_PutSetsEvents ==
    [][\A a \in agents, secret \in PutSecrets, E \in PutEvents :
          PutWebhook(a, "http://a.example/hook", secret, E) =>
              /\ Range(webhooks'[a].events) = Range(E)
              /\ \A e \in {"mention", "channel_subscribed"} :
                    (fireWebhook(a, e, NoData)' # {}) <=> e \in Range(E)]_vars

(***************************************************************************)
(* Property of SpecMember.                                                 *)
(***************************************************************************)
\* the number of deliveries to agent a sent in a step
SentTo(a) ==
    BagCardinality([att \in {x \in BagToSet(Sent) : x.agent = a} |->
                       CopiesIn(att, Sent)])

\* C39: when a message is posted to a channel, every member of the channel
\* but the author whose enabled registration has channel_subscribed among
\* its events is sent exactly one delivery for it, whether the message
\* mentions the member or not, and the author is sent none.
C39_OneDeliveryPerSubscriber ==
    [][\A c \in Channels :
          Posts(c) =>
              /\ \A a \in HookAgents :
                    (/\ a # Posted(c).agentId
                     /\ a \in Range(channels[c].members)
                     /\ Enabled(a)
                     /\ webhooks[a] # NoHook
                     /\ "channel_subscribed" \in Range(webhooks[a].events))
                        => SentTo(a) = 1
              /\ SentTo(Posted(c).agentId) = 0]_vars

====
